---- MODULE Spec2Model ----
(***************************************************************************)
(* Model of the rate-limited command channel (CommandSystem) of the        *)
(* Minecraft sub counter: one channel instance, the callers that submit    *)
(* commands to it, the timer that resumes its drain loop and its socket.   *)
(*                                                                         *)
(* Time is the value Date.now() returns.  One handler of the event loop    *)
(* runs to its next suspension point (await) in one step; between two      *)
(* steps any other ready handler can run and the clock can advance, so a   *)
(* timer callback runs at or after the time it was armed for.              *)
(***************************************************************************)
EXTENDS Integers, Sequences, FiniteSets, TLC

(* ---------------- program constants ---------------- *)

\* config.commandDelay: ms between commands
commandDelay == 50

(* ---------------- bounds of the model ---------------- *)

\* number of sendCommand calls in one behaviour
MaxCmds == 4
\* Date.now() when the channel is constructed (any value >= commandDelay)
StartTime == 100
\* the clock advances by this many ms in one Tick
TickMs == 25
\* callers stop the clock from advancing past this time unless a timer is armed
MaxTime == 150

\* command texts a caller can pass: empty, without and with the leading slash
Texts == { <<>>, <<"f">>, <<"/", "f">> }

\* the palette of the README's woolColors.json, each rgb split at the commas
Readme ==
  << [ name |-> "white_wool", rgb |-> << "249", "255", "254" >> ],
     [ name |-> "orange_wool", rgb |-> << "249", "128", "29" >> ],
     [ name |-> "magenta_wool", rgb |-> << "199", "78", "189" >> ] >>

\* the two connections
Connections == { 1, 2 }

\* a temp file that does not exist, a buffer not yet read
absent == [ image |-> "none", form |-> "none" ]

\* commandQueue.shift() on an empty array
undefined == 0

\* null where an object or a timer id is expected: no object has index 0
null == 0

\* null where a subscriber count is expected: no count has no digits
noCount == <<>>

VARIABLES
  now,              \* Date.now()
  lastCommandTime,  \* this.lastCommandTime
  commandQueue,     \* this.commandQueue: the queued commandData, by id
  isProcessing,     \* this.isProcessing
  drainWake,        \* suspended processQueue invocations: the time each sleep ends
  cmds,             \* every commandData built so far and what happened to its promise
  wire,             \* the socket.send calls made so far, in order
  unhandled,        \* number of processQueue promises that were rejected
  tasks,            \* the async calls in flight above the channel, each at its await
  busy,             \* CommandHandler.isProcessing
  liveUpdates,      \* CommandHandler.liveUpdates
  timers,           \* the setInterval and setTimeout timers of handleLiveUpdates
  channels,         \* the channelData objects getChannelData has returned
  renders,          \* the digit renders submitted so far: who asked, which plan
  received,         \* number of chat lines handled
  polled,           \* number of polls that fetched
  connection,       \* the socket: is it open, is it in connectedClients, in commandHandlers
  peer,             \* the CommandSystem of a second connection
  files,            \* config.image.tempFiles: what each of the two files holds
  processing,       \* per connection: where its avatar processing stands
  countNew,         \* argument of the renderer's digit functions
  countOld,         \* argument of updateSubscriberCount
  plan,             \* the plan the renderer's function returned
  woolColors,       \* ImageProcessor.woolColors: the palette, each rgb split at the commas
  colorCache,       \* ImageProcessor.colorCache: the names by key
  scans,            \* number of palette scans findClosestWoolColor has made
  resolved,         \* the calls of findClosestWoolColor: arguments, result, scanned or not
  raw,              \* sharp(processed).raw(): info and the bytes of data
  placed,           \* what generateBlockData returned
  legacy            \* send.js: lastMsgTime, queue, its timeouts and what it wrote

\* the image processors and the calls of the pure functions
pvars == << files, processing, countNew, countOld, plan, woolColors, colorCache, scans,
            resolved, raw, placed, legacy >>

\* the dispatcher's state
dvars == << busy, liveUpdates, timers, channels, renders, received, polled, connection, peer, pvars >>

\* the state above the channel
hvars == << tasks, dvars >>

vars == << now, lastCommandTime, commandQueue, isProcessing, drainWake,
           cmds, wire, unhandled, hvars >>

\* the channel's fields and the call's effects, threaded through one handler
Chan == [ q |-> commandQueue, last |-> lastCommandTime, proc |-> isProcessing,
          sleep |-> drainWake, cmds |-> cmds, wire |-> wire,
          threw |-> FALSE, sends |-> 0 ]

\* command.startsWith('/') ? command : `/${command}`
FullCommand(command) ==
  IF Len(command) > 0 /\ Head(command) = "/" THEN command ELSE <<"/">> \o command

\* resolve(...) of the promise of command id
Resolve(c, id) ==
  [ c EXCEPT ![id].resolves = @ + 1,
             ![id].outcome = IF c[id].outcome = "pending" THEN "success" ELSE @ ]

\* reject(...) of the promise of command id; a settled promise keeps its outcome
Reject(c, id, why) ==
  [ c EXCEPT ![id].rejects = @ + 1,
             ![id].outcome = IF c[id].outcome = "pending" THEN why ELSE @ ]

\* executeCommand without `this.lastCommandTime = Date.now()`
ExecuteCommandNoStamp(s, id, t, oks) ==
  IF id = undefined
  THEN [ s EXCEPT !.threw = TRUE ]
  ELSE IF oks[s.sends + 1]
       THEN [ s EXCEPT !.wire = Append(@, [ id |-> id, at |-> t, ok |-> TRUE ]),
                       !.sends = @ + 1,
                       !.cmds = Resolve(@, id) ]
       ELSE [ s EXCEPT !.wire = Append(@, [ id |-> id, at |-> t, ok |-> FALSE ]),
                       !.sends = @ + 1,
                       !.cmds = Reject(@, id, "writeFailed") ]

\* executeCommand without the try/catch around socket.send
ExecuteCommandNoCatch(s, id, t, oks) ==
  IF id = undefined
  THEN [ s EXCEPT !.threw = TRUE ]
  ELSE IF oks[s.sends + 1]
       THEN [ s EXCEPT !.wire = Append(@, [ id |-> id, at |-> t, ok |-> TRUE ]),
                       !.sends = @ + 1,
                       !.last = t,
                       !.cmds = Resolve(@, id) ]
       ELSE [ s EXCEPT !.wire = Append(@, [ id |-> id, at |-> t, ok |-> FALSE ]),
                       !.sends = @ + 1,
                       !.threw = TRUE ]

\* executeCommand(commandData): destructuring undefined throws before the try;
\* oks[k] tells whether the k-th socket.send of this handler returns or throws
ExecuteCommand(s, id, t, oks) ==
  IF id = undefined
  THEN [ s EXCEPT !.threw = TRUE ]
  ELSE IF oks[s.sends + 1]
       THEN [ s EXCEPT !.wire = Append(@, [ id |-> id, at |-> t, ok |-> TRUE ]),
                       !.sends = @ + 1,
                       !.last = t,
                       !.cmds = Resolve(@, id) ]
       ELSE [ s EXCEPT !.wire = Append(@, [ id |-> id, at |-> t, ok |-> FALSE ]),
                       !.sends = @ + 1,
                       !.cmds = Reject(@, id, "writeFailed") ]

\* const commandData = this.commandQueue.shift(); this.executeCommand(commandData)
ShiftExecute(s, t, oks) ==
  IF Len(s.q) = 0
  THEN ExecuteCommand(s, undefined, t, oks)
  ELSE ExecuteCommand([ s EXCEPT !.q = Tail(@) ], Head(s.q), t, oks)

\* the while loop of processQueue from its test to the next await, to the
\* loop's end or to an exception, which leaves isProcessing set
RECURSIVE DrainLoop(_, _, _)
DrainLoop(s, t, oks) ==
  IF s.threw THEN s
  ELSE IF Len(s.q) = 0 THEN [ s EXCEPT !.proc = FALSE ]
  ELSE IF t - s.last < commandDelay
       THEN [ s EXCEPT !.sleep = Append(@, t + (commandDelay - (t - s.last))) ]
       ELSE DrainLoop(ShiftExecute(s, t, oks), t, oks)

\* processQueue without the isProcessing test of its guard
ProcessQueueNoGuard(s, t, oks) ==
  IF Len(s.q) = 0 THEN s
  ELSE DrainLoop([ s EXCEPT !.proc = TRUE ], t, oks)

\* processQueue() up to its first await
ProcessQueue(s, t, oks) ==
  IF s.proc \/ Len(s.q) = 0 THEN s
  ELSE DrainLoop([ s EXCEPT !.proc = TRUE ], t, oks)

\* an exception in processQueue rejects the promise it returned, which no
\* caller holds: the rejection is unhandled and the caller goes on
AsyncCall(s) == [ s EXCEPT !.threw = FALSE ]

\* new Promise(executor): an exception the executor throws rejects the promise
PromiseExecutor(s, id) ==
  IF s.threw THEN [ s EXCEPT !.threw = FALSE, !.cmds = Reject(@, id, "threw") ] ELSE s

\* sendCommand that puts a priority command at the head of the queue
SendCommandBodyUnshift(s, command, priority, t, oks) ==
  LET id == Len(s.cmds) + 1
      data(path) == [ command |-> IF path = "rejected" THEN command ELSE FullCommand(command),
                      empty |-> Len(command) = 0, priority |-> priority, path |-> path,
                      ahead |-> { s.q[i] : i \in 1..Len(s.q) },
                      resolves |-> 0, rejects |-> 0, outcome |-> "pending" ]
  IN IF Len(command) = 0
     THEN [ s EXCEPT !.cmds = Reject(Append(@, data("rejected")), id, "empty") ]
     ELSE PromiseExecutor(
            IF ~priority /\ (t - s.last >= commandDelay)
            THEN ExecuteCommand([ s EXCEPT !.cmds = Append(@, data("immediate")) ], id, t, oks)
            ELSE AsyncCall(ProcessQueue([ s EXCEPT !.cmds = Append(@, data("queued")),
                                                  !.q = IF priority THEN <<id>> \o @
                                                        ELSE Append(@, id) ], t, oks)),
            id)

\* sendCommand without the test for an empty command
SendCommandBodyNoCheck(s, command, priority, t, oks) ==
  LET id == Len(s.cmds) + 1
      data(path) == [ command |-> FullCommand(command),
                      empty |-> Len(command) = 0, priority |-> priority, path |-> path,
                      ahead |-> { s.q[i] : i \in 1..Len(s.q) },
                      resolves |-> 0, rejects |-> 0, outcome |-> "pending" ]
  IN PromiseExecutor(
       IF priority \/ (t - s.last >= commandDelay)
       THEN ExecuteCommand([ s EXCEPT !.cmds = Append(@, data("immediate")) ], id, t, oks)
       ELSE AsyncCall(ProcessQueue([ s EXCEPT !.cmds = Append(@, data("queued")),
                                             !.q = Append(@, id) ], t, oks)),
       id)

\* sendCommand(command, priority)
SendCommandBody(s, command, priority, t, oks) ==
  LET id == Len(s.cmds) + 1
      data(path) == [ command |-> IF path = "rejected" THEN command ELSE FullCommand(command),
                      empty |-> Len(command) = 0, priority |-> priority, path |-> path,
                      ahead |-> { s.q[i] : i \in 1..Len(s.q) },
                      resolves |-> 0, rejects |-> 0, outcome |-> "pending" ]
  IN IF Len(command) = 0
     THEN [ s EXCEPT !.cmds = Reject(Append(@, data("rejected")), id, "empty") ]
     ELSE PromiseExecutor(
            IF priority \/ (t - s.last >= commandDelay)
            THEN ExecuteCommand([ s EXCEPT !.cmds = Append(@, data("immediate")) ], id, t, oks)
            ELSE AsyncCall(ProcessQueue([ s EXCEPT !.cmds = Append(@, data("queued")),
                                                  !.q = Append(@, id) ], t, oks)),
            id)

\* commandQueue.forEach(({ reject }) => reject(new Error('Command cancelled ...')))
RECURSIVE RejectAll(_, _)
RejectAll(c, q) ==
  IF Len(q) = 0 THEN c
  ELSE RejectAll(Reject(c, Head(q), "cancelled"), Tail(q))

\* clearQueue that drops the queue without rejecting its commands
ClearQueueBodyDrop(s) ==
  [ s EXCEPT !.q = <<>> ]

\* clearQueue that rejects the queued commands and keeps them queued
ClearQueueBodyKeep(s) ==
  [ s EXCEPT !.cmds = RejectAll(@, s.q) ]

\* clearQueue()
ClearQueueBody(s) ==
  [ s EXCEPT !.cmds = RejectAll(@, s.q), !.q = <<>> ]

(* ---------------- sendBatch ---------------- *)

\* no sendBatch call
NoBatch == [ commands |-> <<>>, delay |-> 0, ids |-> <<>>, at |-> <<>>,
             results |-> <<>>, wait |-> "none", wake |-> 0 ]

\* const result = await this.sendCommand(commands[i]): the call, up to the await
BatchSubmit(s, b, t, oks) ==
  LET i == Len(b.ids) + 1
  IN [ s |-> SendCommandBody(s, b.commands[i], FALSE, t, oks),
       b |-> [ b EXCEPT !.ids = Append(@, Len(s.cmds) + 1),
                        !.at = Append(@, t),
                        !.wait = "cmd" ] ]

\* sendBatch(commands, delay) up to its first await
BatchStart(s, commands, delay, t, oks) ==
  LET b == [ NoBatch EXCEPT !.commands = commands, !.delay = delay ]
  IN IF Len(commands) = 0
     THEN [ s |-> s, b |-> [ b EXCEPT !.wait = "done" ] ]
     ELSE BatchSubmit(s, b, t, oks)

\* sendBatch that calls sendCommand without awaiting its promise
BatchReadyNoAwait(s, b) ==
  b.wait = "cmd"

\* await of the promise of the item submitted last: the loop goes on once the
\* promise is settled
BatchReady(s, b) ==
  b.wait = "cmd" /\ s.cmds[b.ids[Len(b.ids)]].outcome # "pending"

\* sendBatch with its try/catch around the loop: the first error ends the batch
BatchAfterAwaitAbort(s, b, t, oks) ==
  LET i == Len(b.ids)
      outcome == s.cmds[b.ids[i]].outcome
      pushed == [ b EXCEPT !.results = Append(@, outcome) ]
  IN IF outcome \in { "empty", "writeFailed", "cancelled", "threw" }
     THEN [ s |-> s, b |-> [ pushed EXCEPT !.wait = "done" ] ]
     ELSE IF i < Len(b.commands)
          THEN [ s |-> s, b |-> [ pushed EXCEPT !.wait = "sleep", !.wake = t + b.delay ] ]
          ELSE [ s |-> s, b |-> [ pushed EXCEPT !.wait = "done" ] ]

\* the body of the loop after `await this.sendCommand(...)`, to the next await
\* or to the return: the result and the sleep in the try, the error in the catch
BatchAfterAwait(s, b, t, oks) ==
  LET i == Len(b.ids)
      outcome == s.cmds[b.ids[i]].outcome
      pushed == [ b EXCEPT !.results = Append(@, outcome) ]
  IN IF outcome \in { "empty", "writeFailed", "cancelled", "threw" }
     THEN IF i < Len(b.commands)
          THEN BatchSubmit(s, pushed, t, oks)
          ELSE [ s |-> s, b |-> [ pushed EXCEPT !.wait = "done" ] ]
     ELSE IF i < Len(b.commands)
          THEN [ s |-> s, b |-> [ pushed EXCEPT !.wait = "sleep", !.wake = t + b.delay ] ]
          ELSE [ s |-> s, b |-> [ pushed EXCEPT !.wait = "done" ] ]

\* the loop after `await this.sleep(delay)`: the next item
BatchAfterSleep(s, b, t, oks) ==
  BatchSubmit(s, [ b EXCEPT !.wake = 0 ], t, oks)

\* the handler's result becomes the state
Commit(s) ==
  /\ commandQueue' = s.q
  /\ lastCommandTime' = s.last
  /\ isProcessing' = s.proc
  /\ drainWake' = s.sleep
  /\ cmds' = s.cmds
  /\ wire' = s.wire
  /\ unhandled' = unhandled + (IF s.threw THEN 1 ELSE 0)

\* one handler calls socket.send at most once per queued command and once more
Oks == [ 1..(Len(commandQueue) + 1) -> BOOLEAN ]

\* handleConnection has built the connection's objects
Connected ==
  /\ now = StartTime
  /\ lastCommandTime = 0
  /\ commandQueue = <<>>
  /\ isProcessing = FALSE
  /\ drainWake = <<>>
  /\ cmds = <<>>
  /\ wire = <<>>
  /\ unhandled = 0
  /\ tasks = <<>>
  /\ busy = FALSE
  /\ liveUpdates = [ enabled |-> FALSE, intervalId |-> null, channelData |-> null,
                     startTime |-> null, lastSubscriberCount |-> noCount ]
  /\ timers = <<>>
  /\ channels = <<>>
  /\ renders = <<>>
  /\ received = 0
  /\ polled = 0
  /\ connection = [ open |-> TRUE, connectedClients |-> TRUE, commandHandlers |-> TRUE ]
  /\ peer = [ q |-> <<>>, last |-> 0, proc |-> FALSE, sleep |-> <<>>, cmds |-> <<>>,
              wire |-> <<>>, threw |-> FALSE, sends |-> 0 ]

\* no avatar is being processed
NoImages ==
  /\ files = [ original |-> absent, processed |-> absent ]
  /\ processing = [ c \in Connections |-> [ pc |-> "idle", url |-> "none", buffer |-> absent,
                                            blockData |-> absent ] ]

\* no digit function has been called
NoPlan ==
  /\ countNew = noCount
  /\ countOld = noCount
  /\ plan = [ fn |-> "none", commands |-> <<>> ]

\* no colour has been resolved, no image has been read
NoColours ==
  /\ woolColors = Readme
  /\ colorCache = <<>>
  /\ scans = 0
  /\ resolved = <<>>
  /\ raw = [ width |-> 0, height |-> 0, data |-> <<>> ]
  /\ placed = <<>>

\* send.js has been loaded: `let lastMsgTime = 0`, `let queue = []`; no
\* timeout is armed and nothing has been written
NoLegacy ==
  legacy = [ lastMsgTime |-> 0, queue |-> <<>>, timeouts |-> <<>>, calls |-> <<>>,
             written |-> <<>> ]

Init == Connected /\ NoImages /\ NoPlan /\ NoColours /\ NoLegacy

\* a caller calls sendCommand(command, priority)
SendCommand ==
  /\ Len(cmds) < MaxCmds
  /\ now <= MaxTime
  /\ \E command \in Texts, priority \in BOOLEAN, oks \in Oks :
       Commit(SendCommandBody(Chan, command, priority, now, oks))
  /\ UNCHANGED << now, hvars >>

\* a caller calls clearQueue()
ClearQueue ==
  /\ now <= MaxTime
  /\ Commit(ClearQueueBody(Chan))
  /\ UNCHANGED << now, hvars >>

\* the timer of a sleeping processQueue fires: the loop goes on after the await
DrainWake ==
  /\ Len(drainWake) > 0
  /\ \E k \in 1..Len(drainWake), oks \in Oks :
       /\ now >= drainWake[k]
       /\ LET woken == [ Chan EXCEPT !.sleep = SubSeq(@, 1, k - 1) \o SubSeq(@, k + 1, Len(@)) ]
          IN Commit(DrainLoop(ShiftExecute(woken, now, oks), now, oks))
  /\ UNCHANGED << now, hvars >>

\* a setTimeout of the channel or of a sendBatch is armed and not yet due
TimerArmed ==
  \/ \E k \in 1..Len(drainWake) : drainWake[k] > now
  \/ \E k \in 1..Len(tasks) : tasks[k].b.wait = "sleep" /\ tasks[k].b.wake > now

\* time passes
Tick ==
  /\ now < MaxTime \/ TimerArmed
  /\ now' = now + TickMs
  /\ UNCHANGED << lastCommandTime, commandQueue, isProcessing, drainWake,
                  cmds, wire, unhandled, hvars >>

Next == SendCommand \/ ClearQueue \/ DrainWake \/ Tick

Spec == Init /\ [][Next]_vars

\* timers fire and the clock runs; callers are free to call or not
FairSpec == Spec /\ WF_vars(DrainWake) /\ WF_vars(Tick)

(* ---------------- a caller of sendBatch ---------------- *)

\* number of commands of one sendBatch call
MaxBatch == 3

\* the delays callers pass: clearAll's 50, renderProfileImage's 25, config.batchDelay
batchDelay == 100
Delays == { 25, 50, batchDelay }

\* the command lists a caller can pass
BatchInputs == UNION { [ 1..n -> Texts \ { <<"/", "f">> } ] : n \in 0..MaxBatch }

\* a caller calls sendBatch(commands, delay)
SendBatch ==
  /\ tasks = <<>>
  /\ now <= MaxTime
  /\ \E commands \in BatchInputs, delay \in Delays, oks \in Oks :
       LET r == BatchStart(Chan, commands, delay, now, oks)
       IN /\ Commit(r.s)
          /\ tasks' = << [ kind |-> "sendBatch", b |-> r.b ] >>
  /\ UNCHANGED << now, dvars >>

\* the promise a sendBatch awaits is settled: its loop goes on
BatchResume ==
  /\ \E k \in 1..Len(tasks), oks \in Oks :
       /\ BatchReady(Chan, tasks[k].b)
       /\ LET r == BatchAfterAwait(Chan, tasks[k].b, now, oks)
          IN /\ Commit(r.s)
             /\ tasks' = [ tasks EXCEPT ![k].b = r.b ]
  /\ UNCHANGED << now, dvars >>

\* the timer of a sendBatch's sleep fires
BatchWake ==
  /\ \E k \in 1..Len(tasks), oks \in Oks :
       /\ tasks[k].b.wait = "sleep"
       /\ now >= tasks[k].b.wake
       /\ LET r == BatchAfterSleep(Chan, tasks[k].b, now, oks)
          IN /\ Commit(r.s)
             /\ tasks' = [ tasks EXCEPT ![k].b = r.b ]
  /\ UNCHANGED << now, dvars >>

\* number of say calls other callers make beside the sendBatch
MaxSays == 1

\* another caller calls say(message): sendCommand(`say ${message}`, true)
Say ==
  /\ Cardinality({ i \in 1..Len(cmds) : cmds[i].priority }) < MaxSays
  /\ now <= MaxTime
  /\ \E oks \in Oks : Commit(SendCommandBody(Chan, <<"s">>, TRUE, now, oks))
  /\ UNCHANGED << now, hvars >>

NextBatch == SendBatch \/ BatchResume \/ BatchWake \/ Say \/ ClearQueue
               \/ DrainWake \/ Tick

\* the channel with one sendBatch call among its other callers
SpecBatch == Init /\ [][NextBatch]_vars

(* ---------------- the dispatcher: CommandHandler and MinecraftRenderer ---------------- *)

\* config.liveUpdates.interval and config.liveUpdates.maxDuration, in ms: the
\* poll "every 2 seconds" and the stop "after 5 minutes" of the chat replies
interval == 2000
maxDuration == 300000

\* config.coordinates.clearAreas
clearAreas == << "subscriberDisplay", "profileImage" >>

\* clearAll's clearCommands: `fill ${area.from} ${area.to} air` for every area
clearCommands == [ i \in 1..Len(clearAreas) |-> << "fill", clearAreas[i], "air" >> ]

\* the smaller of two numbers
Min(a, b) == IF a < b THEN a ELSE b

\* config.coordinates.subscriberDisplay
subscriberDisplay == [ start |-> [ x |-> 1, y |-> -60, z |-> 42 ], digitSpacing |-> 4 ]

\* config.coordinates.digitTemplates
digitTemplates ==
  [ digit \in { "0", "1", "2", "3", "4", "5", "6", "7", "8", "9" } |->
      CASE digit = "0" -> [ from |-> "-34 -64 46", to |-> "-36 -64 42" ]
        [] digit = "1" -> [ from |-> "2 -64 46", to |-> "0 -64 42" ]
        [] digit = "2" -> [ from |-> "-2 -64 46", to |-> "-4 -64 42" ]
        [] digit = "3" -> [ from |-> "-6 -64 46", to |-> "-8 -64 42" ]
        [] digit = "4" -> [ from |-> "-10 -64 46", to |-> "-12 -64 42" ]
        [] digit = "5" -> [ from |-> "-14 -64 46", to |-> "-16 -64 42" ]
        [] digit = "6" -> [ from |-> "-18 -64 46", to |-> "-20 -64 42" ]
        [] digit = "7" -> [ from |-> "-22 -64 46", to |-> "-24 -64 42" ]
        [] digit = "8" -> [ from |-> "-26 -64 46", to |-> "-28 -64 42" ]
        [] digit = "9" -> [ from |-> "-30 -64 46", to |-> "-32 -64 42" ] ]

\* the template literal `${x} ${y} ${z}`
Coordinates(x, y, z) == ToString(x) \o " " \o ToString(y) \o " " \o ToString(z)

\* positions that advance by one block instead of by digitSpacing
DestXNoSpacing(i) == subscriberDisplay.start.x - i

\* destX of the i-th position, i counted from 0
DestX(i) == subscriberDisplay.start.x - (i * subscriberDisplay.digitSpacing)

\* `clone ${template.from} ${template.to} ${destination}` for the i-th position
Clone(digit, i) ==
  << "clone", digitTemplates[digit].from, digitTemplates[digit].to,
     Coordinates(DestX(i), subscriberDisplay.start.y, subscriberDisplay.start.z) >>

\* the corners clearFrom and clearTo of the i-th position, as x, y, z
clearFrom(i) ==
  << DestX(i) + 2, subscriberDisplay.start.y, subscriberDisplay.start.z - 2 >>
clearTo(i) ==
  << DestX(i) - 2, subscriberDisplay.start.y + 4, subscriberDisplay.start.z + 2 >>

\* `fill ${clearFrom} ${clearTo} air` for the i-th position
Fill(i) ==
  << "fill",
     Coordinates(clearFrom(i)[1], clearFrom(i)[2], clearFrom(i)[3]),
     Coordinates(clearTo(i)[1], clearTo(i)[2], clearTo(i)[3]),
     "air" >>

\* the loop of renderSubscriberCount from position i on: a digit without a
\* template is skipped
RECURSIVE RenderFrom(_, _)
RenderFrom(digits, i) ==
  IF ~(i < Len(digits) /\ i < 10) THEN <<>>
  ELSE (IF digits[i + 1] \in DOMAIN digitTemplates THEN << Clone(digits[i + 1], i) >> ELSE <<>>)
       \o RenderFrom(digits, i + 1)

\* renderSubscriberCount's commands: a clone of the digit's template to the
\* i-th position for each of the first ten digits
RenderCommands(subscriberCount) == RenderFrom(subscriberCount, 0)

\* updateSubscriberCount padding at the right: push instead of unshift
PadRight(digits, maxLength) ==
  [ i \in 1..maxLength |-> IF i <= Len(digits) THEN digits[i] ELSE " " ]

\* while (digits.length < maxLength) digits.unshift(' ')
Pad(digits, maxLength) ==
  [ i \in 1..maxLength |->
      IF i <= maxLength - Len(digits) THEN " " ELSE digits[i - (maxLength - Len(digits))] ]

\* the loop of updateSubscriberCount from position i on, i counted from 0: for
\* a changed position a fill of its footprint and, unless the new digit is
\* blank or has no template, a clone
RECURSIVE UpdateFrom(_, _, _)
UpdateFrom(newDigits, oldDigits, i) ==
  IF ~(i < Len(newDigits)) THEN <<>>
  ELSE (IF newDigits[i + 1] = oldDigits[i + 1] THEN <<>>
        ELSE IF newDigits[i + 1] = " " THEN << Fill(i) >>
        ELSE IF newDigits[i + 1] \in DOMAIN digitTemplates
               THEN << Fill(i), Clone(newDigits[i + 1], i) >>
        ELSE << Fill(i) >>)
       \o UpdateFrom(newDigits, oldDigits, i + 1)

\* updateSubscriberCount without the comparison: the positions are redrawn
UpdateCommandsRedraw(newCount, oldCount) ==
  [ i \in 1..Len(newCount) |-> Fill(i - 1) ] \o RenderCommands(newCount)

\* updateSubscriberCount's commands when oldCount is there
UpdateCommands(newCount, oldCount) ==
  LET maxLength == IF Len(newCount) > Len(oldCount) THEN Len(newCount) ELSE Len(oldCount)
  IN UpdateFrom(Pad(newCount, maxLength), Pad(oldCount, maxLength), 0)

\* the block types of blockData in the order the Map of renderProfileImage
\* meets them
RECURSIVE BlockTypes(_)
BlockTypes(blockData) ==
  IF Len(blockData) = 0 THEN <<>>
  ELSE LET rest == BlockTypes(SubSeq(blockData, 1, Len(blockData) - 1))
           last == blockData[Len(blockData)].block
       IN IF \E i \in 1..Len(rest) : rest[i] = last THEN rest ELSE Append(rest, last)

\* renderProfileImage's commands for the g-th block type
GroupCommands(blockData, g) ==
  LET blocks == SelectSeq(blockData, LAMBDA block : block.block = BlockTypes(blockData)[g])
  IN [ i \in 1..Len(blocks) |-> << "setblock", blocks[i].coordinates, blocks[i].block >> ]

\* the dispatcher's fields and the channel's, threaded through one handler;
\* err: an exception is on its way to the nearest catch
World == [ s |-> Chan, busy |-> busy, live |-> liveUpdates, timers |-> timers,
           channels |-> channels, renders |-> renders, err |-> FALSE ]

\* await this.commandSystem.say(message): sendCommand(`say ${message}`, true);
\* the await throws when the promise is rejected
AwaitSay(w, message, t, oks) ==
  LET sent == SendCommandBody(w.s, << "say", message >>, TRUE, t, oks)
  IN [ w EXCEPT !.s = sent,
                !.err = sent.cmds[Len(sent.cmds)].outcome # "success" ]

\* one awaited say after the other, up to the first that throws
RECURSIVE Says(_, _, _, _)
Says(w, messages, t, oks) ==
  IF Len(messages) = 0 \/ w.err THEN w
  ELSE Says(AwaitSay(w, Head(messages), t, oks), Tail(messages), t, oks)

\* the catch of a handler: the error is replied; the reply can throw in turn
Catch(w, message, t, oks) ==
  IF w.err THEN AwaitSay([ w EXCEPT !.err = FALSE ], message, t, oks) ELSE w

\* handleStopLiveUpdates that leaves the interval timer armed
HandleStopLiveUpdatesNoClear(w, t, oks) ==
  IF ~w.live.enabled THEN AwaitSay(w, "notEnabled", t, oks)
  ELSE AwaitSay([ w EXCEPT !.live.enabled = FALSE ], "stopped", t, oks)

\* handleStopLiveUpdates()
HandleStopLiveUpdates(w, t, oks) ==
  IF ~w.live.enabled THEN AwaitSay(w, "notEnabled", t, oks)
  ELSE AwaitSay([ w EXCEPT !.live.enabled = FALSE,
                           !.live.intervalId = null,
                           !.timers = IF w.live.intervalId # null
                                      THEN [ @ EXCEPT ![w.live.intervalId].armed = FALSE ]
                                      ELSE @ ],
                "stopped", t, oks)

\* the timers handleLiveUpdates arms at time t: the poll and the auto-stop
LiveTimers(t) ==
  << [ kind |-> "interval", due |-> t + interval, armed |-> TRUE ],
     [ kind |-> "timeout", due |-> t + maxDuration, armed |-> TRUE ] >>

\* handleLiveUpdates without the test of liveUpdates.enabled
HandleLiveUpdatesNoTest(w, t, oks) ==
  IF w.live.channelData = null THEN AwaitSay(w, "noChannelData", t, oks)
  ELSE LET started == Says([ w EXCEPT !.live.enabled = TRUE, !.live.startTime = t ],
                           << "liveEnabled", "everyTwoSeconds" >>, t, oks)
       IN IF started.err THEN started
          ELSE [ started EXCEPT !.live.intervalId = Len(started.timers) + 1,
                                !.timers = @ \o LiveTimers(t) ]

\* handleLiveUpdates(args)
HandleLiveUpdates(w, t, oks) ==
  IF w.live.channelData = null THEN AwaitSay(w, "noChannelData", t, oks)
  ELSE IF w.live.enabled THEN AwaitSay(w, "alreadyEnabled", t, oks)
  ELSE LET started == Says([ w EXCEPT !.live.enabled = TRUE, !.live.startTime = t ],
                           << "liveEnabled", "everyTwoSeconds" >>, t, oks)
       IN IF started.err THEN started
          ELSE [ started EXCEPT !.live.intervalId = Len(started.timers) + 1,
                                !.timers = @ \o LiveTimers(t) ]

\* an async call of the dispatcher at its await; channelData is the index of
\* the handler's local channelData in channels
NoTask == [ kind |-> "", pc |-> "", b |-> NoBatch, channelData |-> null,
            blockData |-> <<>>, group |-> 0, newCount |-> noCount ]

\* a handler has returned, or is suspended as task
Done(w) == [ w |-> w, task |-> <<>> ]
Suspended(w, task) == [ w |-> w, task |-> << task >> ]

\* await this.commandSystem.sendBatch(commands, delay), up to its first await
AwaitSendBatch(w, task, pc, commands, delay, t, oks) ==
  LET r == BatchStart(w.s, commands, delay, t, oks)
  IN Suspended([ w EXCEPT !.s = r.s ], [ task EXCEPT !.pc = pc, !.b = r.b ])

\* the catch and the finally of handleSubscribers
SubscribersEnd(w, t, oks) ==
  Done([ Catch(w, "commandFailed", t, oks) EXCEPT !.busy = FALSE ])

\* handleSubscribers(args) up to `await YouTubeService.getChannelData(...)`
HandleSubscribers(w, args, t, oks) ==
  LET w0 == [ w EXCEPT !.busy = TRUE ]
  IN IF args = "none" THEN SubscribersEnd(AwaitSay(w0, "usage", t, oks), t, oks)
     ELSE IF args = "invalid" THEN SubscribersEnd(AwaitSay(w0, "invalidFormat", t, oks), t, oks)
     ELSE LET w1 == AwaitSay(w0, "fetching", t, oks)
          IN IF w1.err THEN SubscribersEnd(w1, t, oks)
             ELSE Suspended(w1, [ NoTask EXCEPT !.kind = "subs", !.pc = "getChannelData" ])

\* handleSubscribers that stores what getChannelData returned before it tests
\* success
SubscribersFetchedStoreFirst(w, task, data, t, oks) ==
  LET stored == [ w EXCEPT !.channels = Append(@, data),
                           !.live.channelData = Len(w.channels) + 1,
                           !.live.lastSubscriberCount = data.subscriberCount ]
  IN IF ~data.success THEN SubscribersEnd(AwaitSay(stored, "fetchFailed", t, oks), t, oks)
     ELSE AwaitSendBatch(AwaitSay(AwaitSay(stored, "found", t, oks), "clearing", t, oks),
                         [ task EXCEPT !.channelData = Len(w.channels) + 1 ],
                         "clearAll", clearCommands, 50, t, oks)

\* handleSubscribers from the return of getChannelData to clearAll's sendBatch
SubscribersFetched(w, task, data, t, oks) ==
  IF ~data.success THEN SubscribersEnd(AwaitSay(w, "fetchFailed", t, oks), t, oks)
  ELSE LET w1 == AwaitSay(w, "found", t, oks)
           w2 == AwaitSay([ w1 EXCEPT !.channels = Append(@, data),
                                      !.live.channelData = Len(w1.channels) + 1,
                                      !.live.lastSubscriberCount = data.subscriberCount ],
                          "clearing", t, oks)
       IN IF w1.err THEN SubscribersEnd(w1, t, oks)
          ELSE IF w2.err THEN SubscribersEnd(w2, t, oks)
          ELSE AwaitSendBatch(w2, [ task EXCEPT !.channelData = Len(w1.channels) + 1 ],
                              "clearAll", clearCommands, 50, t, oks)

\* handleSubscribers from `Rendering in Minecraft` to renderSubscriberCount's
\* sendBatch; channelData.subscriberCount is read from the object
SubscribersRender(w, task, t, oks) ==
  LET w1 == AwaitSay(w, "rendering", t, oks)
      subscriberCount == w.channels[task.channelData].subscriberCount
  IN IF w1.err THEN SubscribersEnd(w1, t, oks)
     ELSE AwaitSendBatch([ w1 EXCEPT !.renders = Append(@, [ by |-> "subs", plan |-> "full" ]) ],
                         task, "renderSubscriberCount",
                         RenderCommands(subscriberCount), batchDelay, t, oks)

\* handleSubscribers from the end of the render to `await imageProcessor.cleanup()`
SubscribersComplete(w, task, t, oks) ==
  LET w1 == Says(w, << "complete", "liveHint" >>, t, oks)
  IN IF w1.err THEN SubscribersEnd(w1, t, oks)
     ELSE Suspended(w1, [ task EXCEPT !.pc = "cleanup", !.b = NoBatch ])

\* handleSubscribers after clearAll's sendBatch: clearQueue, then the image
SubscribersCleared(w, task, t, oks) ==
  LET w1 == [ w EXCEPT !.s = ClearQueueBody(@) ]
      w2 == AwaitSay(w1, "processingImage", t, oks)
      w3 == AwaitSay([ w2 EXCEPT !.err = FALSE ], "imageFailed", t, oks)
  IN IF w.channels[task.channelData].profileImageUrl = "none"
     THEN SubscribersRender(w1, task, t, oks)
     ELSE IF ~w2.err THEN Suspended(w2, [ task EXCEPT !.pc = "image", !.b = NoBatch ])
     ELSE IF w3.err THEN SubscribersEnd(w3, t, oks)
     ELSE SubscribersRender(w3, task, t, oks)

\* handleSubscribers that gives up when the image fails
SubscribersImageAbort(w, task, blockData, t, oks) ==
  IF Len(blockData) > 0
  THEN SubscribersRender(w, [ task EXCEPT !.blockData = blockData ], t, oks)
  ELSE SubscribersEnd(AwaitSay(w, "imageFailed", t, oks), t, oks)

\* handleSubscribers after downloadAndProcessImage and generateBlockData
SubscribersImage(w, task, blockData, t, oks) ==
  IF Len(blockData) > 0
  THEN SubscribersRender(w, [ task EXCEPT !.blockData = blockData ], t, oks)
  ELSE LET w1 == AwaitSay(w, "imageFailed", t, oks)
       IN IF w1.err THEN SubscribersEnd(w1, t, oks)
          ELSE SubscribersRender(w1, task, t, oks)

\* renderProfileImage: the sendBatch of the next block type, or the end of
\* renderYouTubeChannel when every type is rendered
RenderProfileImage(w, task, t, oks) ==
  IF task.group < Len(BlockTypes(task.blockData))
  THEN AwaitSendBatch(w, [ task EXCEPT !.group = @ + 1 ], "renderProfileImage",
                      GroupCommands(task.blockData, task.group + 1), 25, t, oks)
  ELSE SubscribersComplete(w, task, t, oks)

\* the catch and the finally of handleClear
ClearEnd(w, t, oks) ==
  Done([ Catch(w, "clearFailed", t, oks) EXCEPT !.busy = FALSE ])

\* handleClear() up to clearAll's sendBatch
HandleClear(w, t, oks) ==
  LET w1 == AwaitSay([ w EXCEPT !.busy = TRUE ], "clearingDisplays", t, oks)
      w2 == IF w1.live.enabled THEN HandleStopLiveUpdates(w1, t, oks) ELSE w1
  IN IF w1.err THEN ClearEnd(w1, t, oks)
     ELSE IF w2.err THEN ClearEnd(w2, t, oks)
     ELSE AwaitSendBatch(w2, [ NoTask EXCEPT !.kind = "clear" ], "clearAll",
                         clearCommands, 50, t, oks)

\* handleClear after clearAll's sendBatch
ClearCleared(w, task, t, oks) ==
  LET w1 == AwaitSay([ w EXCEPT !.s = ClearQueueBody(@) ], "cleared", t, oks)
  IN IF w1.err THEN ClearEnd(w1, t, oks)
     ELSE ClearEnd([ w1 EXCEPT !.live.channelData = null,
                               !.live.lastSubscriberCount = noCount ], t, oks)

\* the catch of handleReload
ReloadEnd(w, t, oks) ==
  Done(Catch(w, "reloadFailed", t, oks))

\* handleReload() up to `await this.imageProcessor.cleanup()`
HandleReload(w, t, oks) ==
  LET w1 == AwaitSay(w, "reloading", t, oks)
      w2 == IF w1.live.enabled THEN HandleStopLiveUpdates(w1, t, oks) ELSE w1
  IN IF w1.err THEN ReloadEnd(w1, t, oks)
     ELSE IF w2.err THEN ReloadEnd(w2, t, oks)
     ELSE Suspended([ w2 EXCEPT !.s = ClearQueueBody(@) ],
                    [ NoTask EXCEPT !.kind = "reload", !.pc = "cleanup" ])

\* handleReload after cleanup
ReloadCleaned(w, t, oks) ==
  ReloadEnd(AwaitSay([ w EXCEPT !.live.channelData = null,
                                !.live.lastSubscriberCount = noCount ],
                     "reloaded", t, oks), t, oks)

\* smartRenderSubscriberCount(newCount, oldCount) up to the sendBatch of
\* renderSubscriberCount or of updateSubscriberCount
SmartRenderSubscriberCount(w, task, newCount, oldCount, t, oks) ==
  IF oldCount = noCount
  THEN AwaitSendBatch([ w EXCEPT !.renders = Append(@, [ by |-> "poll", plan |-> "full" ]) ],
                      task, "smartRender", RenderCommands(newCount), batchDelay, t, oks)
  ELSE AwaitSendBatch([ w EXCEPT !.renders = Append(@, [ by |-> "poll", plan |-> "diff" ]) ],
                      task, "smartRender", UpdateCommands(newCount, oldCount), 25, t, oks)

\* checkForSubscriberUpdates from the return of fetchChannelDataDirect
PollFetched(w, task, data, t, oks) ==
  IF ~data.success \/ data.subscriberCount = w.live.lastSubscriberCount THEN Done(w)
  ELSE SmartRenderSubscriberCount(w, [ task EXCEPT !.newCount = data.subscriberCount ],
                                  data.subscriberCount, w.live.lastSubscriberCount, t, oks)

\* checkForSubscriberUpdates after smartRenderSubscriberCount: the write to
\* channelData throws when the channel was forgotten meanwhile, after the
\* count is stored; the catch logs
PollRendered(w, task) ==
  Done([ w EXCEPT !.live.lastSubscriberCount = task.newCount,
                  !.channels = IF w.live.channelData = null THEN @
                               ELSE [ @ EXCEPT ![w.live.channelData].subscriberCount
                                                 = task.newCount ] ])

\* the code after `await sendBatch(...)` of the handler that called it
AfterSendBatch(w, task, t, oks) ==
  CASE task.pc = "clearAll" /\ task.kind = "subs" -> SubscribersCleared(w, task, t, oks)
    [] task.pc = "clearAll" /\ task.kind = "clear" -> ClearCleared(w, task, t, oks)
    [] task.pc = "renderSubscriberCount" -> RenderProfileImage(w, task, t, oks)
    [] task.pc = "renderProfileImage" -> RenderProfileImage(w, task, t, oks)
    [] task.pc = "smartRender" -> PollRendered(w, task)

\* executeCommand without the test of isProcessing
HandlerExecuteCommandNoGuard(w, command, args, t, oks) ==
  CASE command \in { "subs", "subscribers", "channel", "chan" } -> HandleSubscribers(w, args, t, oks)
    [] command = "live" -> Done(HandleLiveUpdates(w, t, oks))
    [] command \in { "stop", "stoplive" } -> Done(HandleStopLiveUpdates(w, t, oks))
    [] command \in { "clear", "reset" } -> HandleClear(w, t, oks)
    [] command = "reload" -> HandleReload(w, t, oks)
    [] OTHER -> Done(AwaitSay(w, "unknownCommand", t, oks))

\* CommandHandler.executeCommand(command, args)
HandlerExecuteCommand(w, command, args, t, oks) ==
  IF w.busy /\ command \in { "subs", "channel", "clear" }
  THEN Done(AwaitSay(w, "pleaseWait", t, oks))
  ELSE CASE command \in { "subs", "subscribers", "channel", "chan" } -> HandleSubscribers(w, args, t, oks)
         [] command = "live" -> Done(HandleLiveUpdates(w, t, oks))
         [] command \in { "stop", "stoplive" } -> Done(HandleStopLiveUpdates(w, t, oks))
         [] command \in { "clear", "reset" } -> HandleClear(w, t, oks)
         [] command = "reload" -> HandleReload(w, t, oks)
         [] OTHER -> Done(AwaitSay(w, "unknownCommand", t, oks))

\* the end of the call that handles a chat line: the catch of
\* CommandHandler.handleMessage replies the error, the caller logs the rest;
\* a poll is called by the timer and logs its error itself
Return(w, kind, t, oks) ==
  IF kind = "poll" THEN [ w EXCEPT !.err = FALSE ]
  ELSE [ Catch(w, "error", t, oks) EXCEPT !.err = FALSE ]

\* checkForSubscriberUpdates() up to `await fetchChannelDataDirect(...)`
CheckForSubscriberUpdates(w) ==
  IF ~w.live.enabled \/ w.live.channelData = null THEN Done(w)
  ELSE Suspended(w, [ NoTask EXCEPT !.kind = "poll", !.pc = "fetchChannelDataDirect" ])

\* the callback of the setTimeout of handleLiveUpdates: neither call is
\* awaited, a rejected promise is only logged
AutoStopCallback(w, t, oks) ==
  IF w.live.enabled
  THEN [ AwaitSay([ HandleStopLiveUpdates(w, t, oks) EXCEPT !.err = FALSE ],
                  "stoppedAutomatically", t, oks) EXCEPT !.err = FALSE ]
  ELSE w

(* ---------------- the dispatcher's event loop ---------------- *)

\* number of chat lines in one behaviour
MaxLines == 3
\* number of chat lines in one behaviour that start a lookup of a channel
MaxFetches == 1
\* number of chat lines in one behaviour that start a clear
MaxClears == 1
\* number of firings of the poll timer in one behaviour whose poll is followed;
\* the other firings are polls that find the count unchanged and change nothing
MaxPolls == 1
\* number of socket.send calls that throw in one behaviour
MaxFails == 1

\* the chat lines of a player who renders and clears: the command name and
\* what follows it
Lines ==
  { [ command |-> c, args |-> "valid" ] : c \in { "subs", "subscribers", "channel", "chan" } }
  \cup { [ command |-> "subs", args |-> a ] : a \in { "none", "invalid" } }
  \cup { [ command |-> c, args |-> "none" ] : c \in { "clear", "reset", "reload" } }

\* the chat lines of a player who runs live updates
LiveLines ==
  { [ command |-> c, args |-> "none" ] :
      c \in { "live", "stop", "clear" } }
  \cup { [ command |-> "subs", args |-> "valid" ] }

\* the replies that open handleSubscribers' lookup and handleClear
Replies(message) ==
  Cardinality({ i \in 1..Len(cmds) : cmds[i].command = << "/", "say", message >> })

\* the subscriber counts the remote service reports, as digit strings
Counts == { << "7" >>, << "8" >> }

\* what getChannelData returns for a channel without an avatar: a failure, or
\* the channel's data
ChannelResults ==
  { [ success |-> FALSE, channelId |-> "UC", subscriberCount |-> << "0" >>,
      profileImageUrl |-> "none" ],
    [ success |-> TRUE, channelId |-> "UC", subscriberCount |-> << "7" >>,
      profileImageUrl |-> "none" ] }

\* what getChannelData returns for a channel with an avatar
AvatarResults ==
  { [ success |-> TRUE, channelId |-> "UC", subscriberCount |-> << "7" >>,
      profileImageUrl |-> "url" ] }

\* what fetchChannelDataDirect returns
PollResults ==
  { [ success |-> FALSE, subscriberCount |-> << "0" >> ] }
  \cup { [ success |-> TRUE, subscriberCount |-> c ] : c \in Counts }

\* what the image processor returns: no block when the download or the
\* processing throws, else the blocks of the image
Images == { <<>>, << [ block |-> "white_wool", coordinates |-> "p1" ] >> }

\* number of socket.send calls that threw so far
Failed == Cardinality({ n \in 1..Len(wire) : ~wire[n].ok })

\* one handler calls socket.send at most once per queued command and for a
\* few replies; at most one of the calls of a handler throws
StepSends == Len(commandQueue) + 6
StepOks ==
  { [ n \in 1..StepSends |-> ok ] :
      ok \in { TRUE } \cup (IF Failed < MaxFails THEN { FALSE } ELSE {}) }

\* the handler's result becomes the state
CommitWorld(w) ==
  /\ Commit(w.s)
  /\ busy' = w.busy
  /\ liveUpdates' = w.live
  /\ timers' = w.timers
  /\ channels' = w.channels
  /\ renders' = w.renders

\* task k goes on to its next await or ends
Settle(k, r, t, oks) ==
  IF Len(r.task) = 0
  THEN /\ CommitWorld(Return(r.w, tasks[k].kind, t, oks))
       /\ tasks' = SubSeq(tasks, 1, k - 1) \o SubSeq(tasks, k + 1, Len(tasks))
  ELSE /\ CommitWorld(r.w)
       /\ tasks' = [ tasks EXCEPT ![k] = r.task[1] ]

\* the promise task awaits is settled: sendBatch has returned, or the command
\* it awaits is settled
Ready(task) == task.b.wait = "done" \/ BatchReady(Chan, task.b)

\* a continuation is in the microtask queue: it runs before any timer
\* callback and any message
MicrotaskReady == \E k \in 1..Len(tasks) : Ready(tasks[k])

\* a chat line of the set arrives: bot.handleMessage -> CommandHandler.handleMessage;
\* a socket that has closed or failed emits no message
Chat(lines) ==
  /\ received < MaxLines
  /\ connection.commandHandlers
  /\ ~MicrotaskReady
  /\ \E line \in lines, oks \in StepOks :
       LET r == HandlerExecuteCommand(World, line.command, line.args, now, oks)
           kind == IF Len(r.task) = 0 THEN "none" ELSE r.task[1].kind
       IN /\ kind = "subs" => Replies("fetching") < MaxFetches
          /\ kind = "clear" => Replies("clearingDisplays") < MaxClears
          /\ IF Len(r.task) = 0
             THEN /\ CommitWorld(Return(r.w, "chat", now, oks))
                  /\ tasks' = tasks
             ELSE /\ CommitWorld(r.w)
                  /\ tasks' = Append(tasks, r.task[1])
  /\ received' = received + 1
  /\ UNCHANGED << now, polled, connection, peer, pvars >>

ChatLine == Chat(Lines)

LiveChatLine == Chat(LiveLines)

\* getChannelData returns one of the results to handleSubscribers
Fetched(results) ==
  /\ ~MicrotaskReady
  /\ \E k \in 1..Len(tasks), data \in results, oks \in StepOks :
       /\ tasks[k].pc = "getChannelData"
       /\ Settle(k, SubscribersFetched(World, tasks[k], data, now, oks), now, oks)
  /\ UNCHANGED << now, received, polled, connection, peer, pvars >>

FetchReturn == Fetched(ChannelResults)

AvatarFetchReturn == Fetched(AvatarResults)

\* the image processor returns to handleSubscribers
ImageReturn ==
  /\ ~MicrotaskReady
  /\ \E k \in 1..Len(tasks), blockData \in Images, oks \in StepOks :
       /\ tasks[k].pc = "image"
       /\ Settle(k, SubscribersImage(World, tasks[k], blockData, now, oks), now, oks)
  /\ UNCHANGED << now, received, polled, connection, peer, pvars >>

\* imageProcessor.cleanup() returns to handleSubscribers or to handleReload
CleanupReturn ==
  /\ ~MicrotaskReady
  /\ \E k \in 1..Len(tasks), oks \in StepOks :
       /\ tasks[k].pc = "cleanup"
       /\ Settle(k, IF tasks[k].kind = "reload" THEN ReloadCleaned(World, now, oks)
                    ELSE SubscribersEnd(World, now, oks), now, oks)
  /\ UNCHANGED << now, received, polled, connection, peer, pvars >>

\* the continuation of a handler after the promise it awaits: the loop of its
\* sendBatch, and the handler's own code once sendBatch has returned
TaskResume ==
  /\ \E k \in 1..Len(tasks), oks \in StepOks :
       /\ Ready(tasks[k])
       /\ LET r == IF tasks[k].b.wait = "done" THEN [ s |-> Chan, b |-> tasks[k].b ]
                   ELSE BatchAfterAwait(Chan, tasks[k].b, now, oks)
              w == [ World EXCEPT !.s = r.s ]
          IN Settle(k, IF r.b.wait = "done"
                       THEN AfterSendBatch(w, [ tasks[k] EXCEPT !.b = NoBatch ], now, oks)
                       ELSE Suspended(w, [ tasks[k] EXCEPT !.b = r.b ]), now, oks)
  /\ UNCHANGED << now, received, polled, connection, peer, pvars >>

\* the timer of a sendBatch's sleep fires in a handler
TaskWake ==
  /\ ~MicrotaskReady
  /\ \E k \in 1..Len(tasks), oks \in StepOks :
       /\ tasks[k].b.wait = "sleep"
       /\ now >= tasks[k].b.wake
       /\ LET r == BatchAfterSleep(Chan, tasks[k].b, now, oks)
          IN Settle(k, Suspended([ World EXCEPT !.s = r.s ], [ tasks[k] EXCEPT !.b = r.b ]),
                    now, oks)
  /\ UNCHANGED << now, received, polled, connection, peer, pvars >>

\* the timer of the channel's sleeping processQueue fires
DrainTimer ==
  /\ ~MicrotaskReady
  /\ \E k \in 1..Len(drainWake), oks \in StepOks :
       /\ now >= drainWake[k]
       /\ LET woken == [ Chan EXCEPT !.sleep = SubSeq(@, 1, k - 1) \o SubSeq(@, k + 1, Len(@)) ]
          IN Commit(DrainLoop(ShiftExecute(woken, now, oks), now, oks))
  /\ UNCHANGED << now, hvars >>

\* fetchChannelDataDirect returns to checkForSubscriberUpdates
PollFetchReturn ==
  /\ ~MicrotaskReady
  /\ \E k \in 1..Len(tasks), data \in PollResults, oks \in StepOks :
       /\ tasks[k].pc = "fetchChannelDataDirect"
       /\ Settle(k, PollFetched(World, tasks[k], data, now, oks), now, oks)
  /\ UNCHANGED << now, received, polled, connection, peer, pvars >>

\* the setInterval timer fires: checkForSubscriberUpdates() is called; at most
\* so many polls are followed
PollTick(followed) ==
  /\ ~MicrotaskReady
  /\ polled < followed
  /\ \E i \in 1..Len(timers) :
       /\ timers[i].kind = "interval" /\ timers[i].armed
       /\ now >= timers[i].due
       /\ LET r == CheckForSubscriberUpdates(
                     [ World EXCEPT !.timers[i].due = now + interval ])
          IN /\ CommitWorld(r.w)
             /\ tasks' = tasks \o r.task
  /\ polled' = polled + 1
  /\ UNCHANGED << now, received, connection, peer, pvars >>

PollFire == PollTick(MaxPolls)

\* the setTimeout timer fires
AutoStop ==
  /\ ~MicrotaskReady
  /\ \E i \in 1..Len(timers), oks \in StepOks :
       /\ timers[i].kind = "timeout" /\ timers[i].armed
       /\ now >= timers[i].due
       /\ CommitWorld(AutoStopCallback([ World EXCEPT !.timers[i].armed = FALSE ], now, oks))
  /\ UNCHANGED << now, tasks, received, polled, connection, peer, pvars >>

\* the times the timers other than the poll are armed for
TimerDues ==
  { drainWake[k] : k \in 1..Len(drainWake) }
  \cup { tasks[k].b.wake : k \in { j \in 1..Len(tasks) : tasks[j].b.wait = "sleep" } }
  \cup { timers[i].due : i \in { j \in 1..Len(timers) :
                                   timers[j].kind = "timeout" /\ timers[j].armed } }

\* the other times at which the program can behave differently: the next
\* poll, the ceiling of the session
OtherDues ==
  { timers[i].due : i \in { j \in 1..Len(timers) :
                              timers[j].kind = "interval" /\ timers[j].armed } }
  \cup (IF liveUpdates.enabled THEN { liveUpdates.startTime + maxDuration } ELSE {})

\* time passes, up to the next of these times; a timer runs when it is due
Advance ==
  /\ ~MicrotaskReady
  /\ \A d \in TimerDues : d > now
  /\ \E d \in TimerDues \cup OtherDues :
       /\ d > now
       /\ \A h \in TimerDues : d <= h
       /\ now' = d
  /\ UNCHANGED << lastCommandTime, commandQueue, isProcessing, drainWake,
                  cmds, wire, unhandled, hvars >>

NextDispatcher == ChatLine \/ FetchReturn \/ CleanupReturn \/ TaskResume
                    \/ TaskWake \/ DrainTimer \/ Advance

\* one connection whose player renders and clears: the chat lines, the
\* handler, the renderer and the channel
SpecDispatcher == Init /\ [][NextDispatcher]_vars

NextLive == LiveChatLine \/ FetchReturn \/ CleanupReturn \/ TaskResume \/ TaskWake
              \/ DrainTimer \/ PollFire \/ PollFetchReturn \/ AutoStop \/ Advance

\* one connection whose player runs live updates
SpecLive == Init /\ [][NextLive]_vars

(* ---------------- vocabulary of the properties ---------------- *)

Ids == 1..MaxCmds

\* sendCommand has been called for command i
Submitted(i) == i <= Len(cmds)

\* number of times resolve or reject of command i's promise has been called
Settles(i) == cmds[i].resolves + cmds[i].rejects

\* C1: every sendCommand with a non-empty text settles its outcome, and settles
\* it exactly once (success, write failure or cancellation), whatever further
\* sendCommand, priority and clearQueue calls are made on the channel.
C1_SettlesExactlyOnce ==
  /\ [](\A i \in 1..Len(cmds) : Settles(i) <= 1)
  /\ \A i \in Ids :
       (Submitted(i) /\ cmds[i].path # "rejected") ~> (Submitted(i) /\ Settles(i) = 1)

\* the writes the socket received: the socket.send calls that returned
OkWrites == SelectSeq(wire, LAMBDA w : w.ok)

\* C2: while every submission on the channel is non-priority, any two
\* consecutive socket writes are at least commandDelay apart, from the
\* immediate path of sendCommand and from the drain loop alike.
C2_NonPriorityWritesSpaced ==
  (\A i \in 1..Len(cmds) : ~cmds[i].priority)
    => \A k \in 2..Len(OkWrites) : OkWrites[k].at >= OkWrites[k - 1].at + commandDelay

LastWriteBefore(n) ==
  LET earlier == { k \in 1..(n - 1) : wire[k].ok }
  IN IF earlier = {} THEN 0
     ELSE wire[CHOOSE k \in earlier : \A j \in earlier : j <= k].at

WirePos(i) ==
  IF \E n \in 1..Len(wire) : wire[n].id = i
  THEN CHOOSE n \in 1..Len(wire) : wire[n].id = i
  ELSE 0

\* number of socket.send calls made for command i
Sends(i) == Cardinality({ n \in 1..Len(wire) : wire[n].id = i })

\* the ids in a queue
Range(q) == { q[k] : k \in 1..Len(q) }

\* this step is a sendCommand call: one more commandData exists after it
IsSend == Len(cmds') = Len(cmds) + 1

\* C4: a priority sendCommand made while N commands are queued calls
\* socket.send for its command in that very call, before the socket.send of any
\* of the N queued commands, and leaves the queue and its order unchanged.
C4_PriorityJumpsQueue ==
  /\ [](\A p \in 1..Len(cmds) :
          (cmds[p].priority /\ ~cmds[p].empty)
            => /\ WirePos(p) > 0
               /\ \A i \in cmds[p].ahead : WirePos(i) = 0 \/ WirePos(p) < WirePos(i))
  /\ [][(IsSend /\ cmds'[Len(cmds')].priority /\ ~cmds'[Len(cmds')].empty)
          => /\ commandQueue' = commandQueue
             /\ cmds'[Len(cmds')].ahead = Range(commandQueue)]_vars

\* a priority command was written while two commands were queued, and one of
\* the two has been written since
C4_Witness ==
  \E p \in 1..Len(cmds) :
    /\ cmds[p].priority /\ Cardinality(cmds[p].ahead) >= 2
    /\ WirePos(p) > 0 /\ wire[WirePos(p)].ok
    /\ \E i \in cmds[p].ahead : WirePos(i) > WirePos(p) /\ wire[WirePos(i)].ok

\* C5: non-priority commands are written in the order of their submission: a
\* non-priority command submitted while earlier ones are still queued is never
\* written before them.
C5_Fifo ==
  \A j \in 1..Len(cmds) :
    (~cmds[j].priority /\ WirePos(j) > 0)
      => \A i \in cmds[j].ahead : WirePos(i) = 0 \/ WirePos(i) < WirePos(j)

\* C6: clearQueue with N commands queued rejects each of the N as cancelled,
\* leaves the queue empty and changes nothing else: not the outcome of a
\* command that was executed, nor the wire, the timestamp or the drain.
C6_ClearCancelsQueued ==
  [][ClearQueue
       => /\ commandQueue' = <<>>
          /\ \A i \in Range(commandQueue) :
               /\ cmds'[i].outcome = "cancelled"
               /\ cmds'[i].rejects = cmds[i].rejects + 1
          /\ \A i \in (1..Len(cmds)) \ Range(commandQueue) : cmds'[i] = cmds[i]
          /\ UNCHANGED << wire, lastCommandTime, isProcessing, drainWake, unhandled >>]_vars

\* two commands were cancelled by one clearQueue after another was executed
C6_Witness ==
  /\ commandQueue = <<>>
  /\ \E i, j \in 1..Len(cmds) :
       /\ i # j
       /\ cmds[i].outcome = "cancelled" /\ cmds[j].outcome = "cancelled"
       /\ cmds[i].ahead # cmds[j].ahead
  /\ \E e \in 1..Len(cmds) : cmds[e].outcome = "success"
  /\ \E e \in 1..Len(cmds) : cmds[e].outcome = "writeFailed"

\* C7: a command causes at most one socket.send call, an executed command
\* exactly one; a command cancelled by clearQueue is never sent, and no
\* promise is both resolved and rejected.
C7_AtMostOnce ==
  \A i \in 1..Len(cmds) :
    /\ Sends(i) <= 1
    /\ cmds[i].outcome = "success"
         => Sends(i) = 1 /\ wire[WirePos(i)].ok /\ cmds[i].resolves = 1 /\ cmds[i].rejects = 0
    /\ cmds[i].outcome = "writeFailed"
         => Sends(i) = 1 /\ ~wire[WirePos(i)].ok /\ cmds[i].resolves = 0 /\ cmds[i].rejects = 1
    /\ cmds[i].outcome = "cancelled"
         => Sends(i) = 0 /\ cmds[i].resolves = 0 /\ cmds[i].rejects = 1
    /\ cmds[i].outcome = "pending" => Sends(i) = 0
    /\ ~(cmds[i].resolves > 0 /\ cmds[i].rejects > 0)

\* a command was cancelled, and the drain that was sleeping then has since
\* executed a command queued after the clearQueue
C7_Witness ==
  \E i, j \in 1..Len(cmds) :
    /\ cmds[i].outcome = "cancelled"
    /\ i < j /\ cmds[j].path = "queued" /\ cmds[j].outcome = "success"

\* C8: at most one processQueue loop is active at any time, and the drain
\* flag is set while one is.
C8_SingleDrain ==
  /\ Len(drainWake) <= 1
  /\ Len(drainWake) = 1 => isProcessing

\* three commands were enqueued while one drain was waiting
C8_Witness ==
  Len(drainWake) = 1 /\ Len(commandQueue) >= 3

\* C9: sendCommand with an empty text rejects its promise and does nothing
\* else: no socket.send, and queue, timestamp and drain flag are unchanged.
C9_EmptyRejected ==
  [][(IsSend /\ cmds'[Len(cmds')].empty)
       => /\ cmds'[Len(cmds')].outcome = "empty"
          /\ cmds'[Len(cmds')].rejects = 1 /\ cmds'[Len(cmds')].resolves = 0
          /\ SubSeq(cmds', 1, Len(cmds)) = cmds
          /\ UNCHANGED << wire, commandQueue, lastCommandTime, isProcessing,
                          drainWake, unhandled >>]_vars

\* an empty text was rejected while a drain was waiting with a queued command
C9_Witness ==
  /\ \E i \in 1..Len(cmds) : cmds[i].outcome = "empty" /\ cmds[i].ahead # {}
  /\ Len(drainWake) = 1 /\ Len(commandQueue) > 0

\* command i waits in the queue behind a command whose socket.send threw
QueuedBehindFailure(i) ==
  /\ Submitted(i)
  /\ i \in Range(commandQueue)
  /\ \E f \in cmds[i].ahead : cmds[f].outcome = "writeFailed"

\* C10: when socket.send throws for a command the drain loop executes, that
\* command's promise is rejected and the loop is not halted: no exception
\* leaves it, it ends with the queue empty and the flag reset or it sleeps for
\* the next command, and every command queued behind the failed one is
\* executed afterwards, unless clearQueue cancels it first.
C10_FailureDoesNotHaltDrain ==
  /\ [][\A n \in (Len(wire) + 1)..Len(wire') :
          (~wire'[n].ok /\ cmds'[wire'[n].id].path = "queued")
            => /\ cmds'[wire'[n].id].outcome = "writeFailed"
               /\ unhandled' = unhandled
               /\ \/ commandQueue' = <<>> /\ ~isProcessing' /\ drainWake' = <<>>
                  \/ commandQueue' # <<>> /\ isProcessing' /\ Len(drainWake') = 1]_vars
  /\ \A i \in Ids :
       QueuedBehindFailure(i)
         ~> (Submitted(i) /\ cmds[i].outcome \in { "success", "writeFailed", "cancelled" })

\* the drain's write of one command failed and the command queued behind it
\* was executed afterwards
C10_Witness ==
  \E f, i \in 1..Len(cmds) :
    /\ cmds[f].path = "queued" /\ cmds[f].outcome = "writeFailed"
    /\ f \in cmds[i].ahead
    /\ cmds[i].outcome = "success"
    /\ WirePos(f) < WirePos(i)

(* ---------------- sendBatch: C11..C13 ---------------- *)

\* the outcomes sendBatch reports as { error }
Failures == { "empty", "writeFailed", "cancelled", "threw" }

\* C11: sendBatch returns one result per input command, in input order: the
\* i-th result is the outcome of the command built from the i-th text; a failed
\* item (empty text, write failure, cancellation) gives an error result and the
\* next item is submitted all the same.
C11_BatchResults ==
  \A k \in 1..Len(tasks) :
    LET b == tasks[k].b
    IN /\ Len(b.results) <= Len(b.ids) /\ Len(b.ids) <= Len(b.commands)
       /\ b.wait = "done" => Len(b.results) = Len(b.commands)
       /\ \A i \in 1..Len(b.results) :
            /\ b.results[i] = cmds[b.ids[i]].outcome
            /\ b.results[i] # "pending"
            /\ cmds[b.ids[i]].command
                 = IF Len(b.commands[i]) = 0 THEN <<>> ELSE FullCommand(b.commands[i])
            /\ (b.results[i] \in Failures /\ i < Len(b.commands)) => Len(b.ids) > i
       /\ \A i, j \in 1..Len(b.ids) : i < j => b.ids[i] < b.ids[j]

\* a batch of three has returned: one item was cancelled, one failed to write
\* and the last one was executed
C11_Witness ==
  \E k \in 1..Len(tasks) :
    LET b == tasks[k].b
    IN /\ b.wait = "done" /\ Len(b.commands) = 3
       /\ { b.results[1], b.results[2] } = { "cancelled", "writeFailed" }
       /\ b.results[3] = "success"

\* C12: sendBatch submits one command at a time, in list order: when it
\* submits an item, every earlier item of the batch is settled, so at most one
\* command of the batch is queued or unsettled at any time.
C12_BatchOneAtATime ==
  /\ [](\A k \in 1..Len(tasks) :
          LET b == tasks[k].b
          IN /\ \A i \in 1..(Len(b.ids) - 1) : cmds[b.ids[i]].outcome # "pending"
             /\ Cardinality({ i \in 1..Len(b.ids) : b.ids[i] \in Range(commandQueue) }) <= 1)
  /\ [][\A k \in 1..Len(tasks) :
          Len(tasks'[k].b.ids) > Len(tasks[k].b.ids)
            => \A i \in 1..Len(tasks[k].b.ids) : cmds[tasks[k].b.ids[i]].outcome # "pending"]_vars

\* the second item of a batch waited in the queue and the third was submitted
\* after it had been executed
C12_Witness ==
  \E k \in 1..Len(tasks) :
    LET b == tasks[k].b
    IN /\ Len(b.ids) = 3
       /\ cmds[b.ids[2]].path = "queued" /\ cmds[b.ids[2]].outcome = "success"
       /\ b.at[3] > b.at[2]

\* C13: between two successive submissions of one sendBatch call at least the
\* batch's delay elapses, whatever the outcome of the earlier item.
C13_BatchDelay ==
  \A k \in 1..Len(tasks) :
    LET b == tasks[k].b
    IN \A i \in 2..Len(b.at) : b.at[i] - b.at[i - 1] >= b.delay

(* ---------------- the dispatcher: C14..C20 ---------------- *)

\* the heavy operations in progress: the calls of handleSubscribers and of
\* handleClear that have not returned
Heavy == { k \in 1..Len(tasks) : tasks[k].kind \in { "subs", "clear" } }

\* the commands a handler has built when it leaves world w
Built(w) == SubSeq(w.s.cmds, Len(cmds) + 1, Len(w.s.cmds))

\* the replies sent so far with the message
Replied(message) == \E i \in 1..Len(cmds) : cmds[i].command = << "/", "say", message >>

\* the handler only replied the message: it changed no field of the
\* dispatcher, armed no timer, queued no command, and built nothing but the
\* reply and, when the reply threw, the reply of the catch
OnlyReplied(w, message) ==
  /\ w.busy = busy
  /\ w.live = liveUpdates
  /\ w.timers = timers
  /\ w.channels = channels
  /\ w.renders = renders
  /\ w.s.q = commandQueue
  /\ Len(Built(w)) >= 1
  /\ Built(w)[1].command = << "/", "say", message >>
  /\ \A i \in 2..Len(Built(w)) : Built(w)[i].command = << "/", "say", "error" >>

\* the poll timers that are armed
Polling == { i \in 1..Len(timers) : timers[i].kind = "interval" /\ timers[i].armed }

\* something of the program is still to run without a further chat line: a
\* continuation, a timer, or the return of a remote call
Pending ==
  \/ MicrotaskReady
  \/ TimerDues # {}
  \/ \E k \in 1..Len(tasks) :
       tasks[k].pc \in { "getChannelData", "image", "cleanup", "fetchChannelDataDirect" }

\* C14: per connection at most one heavy operation is in progress at any
\* time: while one handleSubscribers or one handleClear is running no second
\* one starts, whichever of subs, subscribers, channel, chan, clear, reset the
\* chat line uses.
C14_OneHeavyOperation == Cardinality(Heavy) <= 1

\* C15: a subs command received while the dispatcher is Busy is answered with
\* the "please wait" message and does nothing else: no fetch is started, no
\* render or clear command is built, Busy and the remembered channel data are
\* unchanged.
C15_BusySubsOnlyReplies ==
  busy =>
    \A args \in { "none", "invalid", "valid" }, oks \in StepOks :
      LET r == HandlerExecuteCommand(World, "subs", args, now, oks)
      IN /\ Len(r.task) = 0
         /\ OnlyReplied(Return(r.w, "chat", now, oks), "pleaseWait")

\* a chat line was answered "please wait" and the operation it waited for is
\* still running
C15_Witness ==
  /\ busy
  /\ Heavy # {}
  /\ Replied("pleaseWait")
  /\ cmds[Len(cmds)].command = << "/", "say", "pleaseWait" >>

\* C16: whenever the dispatcher is Busy it returns to Idle: Busy is set only
\* while a heavy operation is in progress, and never in a state where nothing
\* of the program remains to run, whether the operation's steps succeed or
\* fail.
C16_BusyReturnsToIdle == busy => (Heavy # {} /\ Pending)

\* C17: at most one live-update session per connection: never two poll
\* timers armed; a live command during a session only replies the error; a
\* live command with no remembered channel only replies the error.
C17_OneSession ==
  /\ Cardinality(Polling) <= 1
  /\ \A oks \in StepOks :
       /\ liveUpdates.channelData = null =>
            OnlyReplied(Return(HandleLiveUpdates(World, now, oks), "chat", now, oks),
                        "noChannelData")
       /\ (liveUpdates.channelData # null /\ liveUpdates.enabled) =>
            OnlyReplied(Return(HandleLiveUpdates(World, now, oks), "chat", now, oks),
                        "alreadyEnabled")

\* a live command was rejected during a session, whose poll timer is armed
C17_Witness ==
  /\ liveUpdates.enabled
  /\ Cardinality(Polling) = 1
  /\ Replied("alreadyEnabled")

\* the "stopped automatically" notices sent so far
Notices ==
  Cardinality({ i \in 1..Len(cmds) :
                  cmds[i].command = << "/", "say", "stoppedAutomatically" >> })

\* the sessions started so far
Sessions ==
  Cardinality({ i \in 1..Len(cmds) : cmds[i].command = << "/", "say", "liveEnabled" >> })

\* C18: a session that is not stopped explicitly is stopped automatically
\* once it has run for the maximum duration: a session is active at or past
\* its ceiling only while the auto-stop callback is due, and no session gets
\* more than one "stopped automatically" notice.
C18_AutoStop ==
  /\ (liveUpdates.enabled /\ now >= liveUpdates.startTime + maxDuration) =>
       \E i \in 1..Len(timers) :
         timers[i].kind = "timeout" /\ timers[i].armed /\ timers[i].due <= now
  /\ Notices <= Sessions

\* C19: after a stop command on an active session the session is inactive
\* and no poll timer is armed until the next accepted live command; a stop
\* command with no active session only replies the error.
C19_Stop ==
  /\ ~liveUpdates.enabled => Polling = {}
  /\ \A oks \in StepOks :
       LET w == HandleStopLiveUpdates(World, now, oks)
       IN IF liveUpdates.enabled
          THEN /\ ~w.live.enabled
               /\ \A i \in 1..Len(w.timers) : w.timers[i].kind = "interval" => ~w.timers[i].armed
               /\ Built(w)[1].command = << "/", "say", "stopped" >>
          ELSE OnlyReplied(Return(w, "chat", now, oks), "notEnabled")

\* a session was started, has polled and has been stopped
C19_Witness ==
  /\ ~liveUpdates.enabled
  /\ Replied("stopped")
  /\ polled > 0
  /\ \E i \in 1..Len(timers) : timers[i].kind = "interval" /\ ~timers[i].armed

\* C20: every render a live-update poll submits is the diffed plan of
\* updateSubscriberCount, never the full plan of renderSubscriberCount, in
\* any interleaving of the polls with subs, clear and stop.
C20_PollRendersDiff ==
  \A i \in 1..Len(renders) : renders[i].by = "poll" => renders[i].plan = "diff"

(* ---------------- the connection's memory and teardown: C21..C23 ---------------- *)

\* the last reply with one of the messages that was written, 0 when none
LastSaid(messages) ==
  LET said == { i \in 1..Len(cmds) :
                  /\ cmds[i].outcome = "success"
                  /\ \E m \in messages : cmds[i].command = << "/", "say", m >> }
  IN IF said = {} THEN 0 ELSE CHOOSE i \in said : \A j \in said : j <= i

\* a clear or a reload has completed and no subs has resolved a channel since
Forgotten == LastSaid({ "cleared", "reloaded" }) > LastSaid({ "found" })

\* C21: once a clear/reset or a reload has completed, and until the next subs
\* resolves a channel, the connection has no active live-update session and
\* remembers no channel and no last subscriber count, and a live command is
\* rejected.
C21_ClearForgets ==
  Forgotten =>
    /\ ~liveUpdates.enabled
    /\ liveUpdates.channelData = null
    /\ liveUpdates.lastSubscriberCount = noCount
    /\ \A oks \in StepOks :
         OnlyReplied(Return(HandleLiveUpdates(World, now, oks), "chat", now, oks),
                     "noChannelData")

\* CommandHandler.cleanup()
Cleanup(w) ==
  IF w.live.enabled
  THEN [ w EXCEPT !.live.enabled = FALSE,
                  !.live.intervalId = null,
                  !.timers = IF w.live.intervalId # null
                             THEN [ @ EXCEPT ![w.live.intervalId].armed = FALSE ]
                             ELSE @ ]
  ELSE w

\* the socket's 'close' event
SocketClose ==
  /\ ~MicrotaskReady
  /\ connection.open
  /\ connection' = [ open |-> FALSE, connectedClients |-> FALSE, commandHandlers |-> FALSE ]
  /\ CommitWorld(IF connection.commandHandlers THEN Cleanup(World) ELSE World)
  /\ UNCHANGED << now, tasks, received, polled, peer, pvars >>

\* the socket's 'error' event; the socket closes afterwards
SocketError ==
  /\ ~MicrotaskReady
  /\ connection.open
  /\ connection.commandHandlers
  /\ connection' = [ connection EXCEPT !.commandHandlers = FALSE ]
  /\ CommitWorld(Cleanup(World))
  /\ UNCHANGED << now, tasks, received, polled, peer, pvars >>

\* the chat lines of a player whose connection ends
CloseLines == { [ command |-> "subs", args |-> "valid" ], [ command |-> "live", args |-> "none" ] }

CloseChatLine == Chat(CloseLines)

NextClose == CloseChatLine \/ FetchReturn \/ CleanupReturn \/ TaskResume \/ TaskWake
               \/ DrainTimer \/ AutoStop \/ Advance
               \/ SocketClose \/ SocketError

\* one connection that closes or fails
SpecClose == Init /\ [][NextClose]_vars

\* C22: when a connection closes or reports an error, its live-update session
\* is cancelled with the poll timer stopped, its channel's queue is emptied
\* with every queued command's outcome settled as cancelled, and the
\* connection leaves the set of live connections.
C22_Teardown ==
  [][ (connection.commandHandlers /\ ~connection'.commandHandlers) =>
        /\ ~liveUpdates'.enabled
        /\ \A i \in 1..Len(timers') : timers'[i].kind = "interval" => ~timers'[i].armed
        /\ commandQueue' = <<>>
        /\ \A k \in 1..Len(commandQueue) : cmds'[commandQueue[k]].outcome = "cancelled"
        /\ ~connection'.connectedClients ]_vars

\* C23: after a connection has closed, no command is built, queued or
\* written for its socket: the result of every operation or poll in flight
\* at the close is discarded.
C23_NothingAfterClose ==
  [][ ~connection.open => (cmds' = cmds /\ wire' = wire /\ commandQueue' = commandQueue) ]_vars

(* ---------------- two connections: C24 ---------------- *)

\* a CommandSystem whose last-send timestamp is the one of the first connection
PeerSystemSharedClock == [ peer EXCEPT !.last = lastCommandTime ]

\* the CommandSystem handleConnection creates for the second connection: its
\* fields are its own
PeerSystem == peer

\* a call on the second connection's CommandSystem has returned
PeerCommit(s) ==
  /\ peer' = [ s EXCEPT !.threw = FALSE, !.sends = 0 ]
  /\ UNCHANGED << now, lastCommandTime, commandQueue, isProcessing, drainWake,
                  cmds, wire, unhandled, tasks, busy, liveUpdates, timers, channels,
                  renders, received, polled, connection, pvars >>

\* socket.send of the second connection returns
PeerOks == [ n \in 1..(Len(peer.q) + 1) |-> TRUE ]

\* a caller of the first connection calls sendCommand
FirstSendCommand ==
  /\ Len(cmds) + Len(peer.cmds) < MaxCmds
  /\ SendCommand

\* a caller of the second connection calls sendCommand(command, priority)
PeerSendCommand ==
  /\ Len(cmds) + Len(peer.cmds) < MaxCmds
  /\ now <= MaxTime
  /\ \E command \in Texts, priority \in BOOLEAN :
       PeerCommit(SendCommandBody(PeerSystem, command, priority, now, PeerOks))

\* a caller of the second connection calls clearQueue()
PeerClearQueue ==
  /\ now <= MaxTime
  /\ PeerCommit(ClearQueueBody(PeerSystem))

\* the timer of the second connection's sleeping processQueue fires
PeerDrainWake ==
  \E k \in 1..Len(peer.sleep) :
    /\ now >= peer.sleep[k]
    /\ LET woken == [ PeerSystem EXCEPT !.sleep = SubSeq(@, 1, k - 1) \o SubSeq(@, k + 1, Len(@)) ]
       IN PeerCommit(DrainLoop(ShiftExecute(woken, now, PeerOks), now, PeerOks))

\* time passes for both connections
PeerTick ==
  /\ now < MaxTime \/ TimerArmed \/ \E k \in 1..Len(peer.sleep) : peer.sleep[k] > now
  /\ now' = now + TickMs
  /\ UNCHANGED << lastCommandTime, commandQueue, isProcessing, drainWake,
                  cmds, wire, unhandled, hvars >>

NextPeers == FirstSendCommand \/ ClearQueue \/ DrainWake \/ PeerSendCommand
               \/ PeerClearQueue \/ PeerDrainWake \/ PeerTick

\* two connections, each with its CommandSystem
SpecPeers == Init /\ [][NextPeers]_vars

\* the first connection's CommandSystem
FirstSystem == << lastCommandTime, commandQueue, isProcessing, drainWake, cmds, wire >>

\* every write the socket accepted is at least the minimum interval old
Rested(w, t) == \A n \in 1..Len(w) : w[n].ok => t - w[n].at >= commandDelay

\* C24: pacing state is per channel: a call on one connection's CommandSystem
\* changes no field of the other's, and a non-empty command a connection
\* submits when its own last accepted write is at least the minimum interval
\* old is written at once, whatever the other connection did.
C24_PacingPerChannel ==
  [][ /\ peer' # peer => FirstSystem' = FirstSystem
      /\ FirstSystem' # FirstSystem => peer' = peer
      /\ (Len(peer'.cmds) = Len(peer.cmds) + 1 /\ ~peer'.cmds[Len(peer'.cmds)].empty
            /\ Rested(peer.wire, now))
           => peer'.cmds[Len(peer'.cmds)].path = "immediate"
      /\ (Len(cmds') = Len(cmds) + 1 /\ ~cmds'[Len(cmds')].empty /\ Rested(wire, now))
           => cmds'[Len(cmds')].path = "immediate" ]_vars

\* both connections have written: the second one at once, less than the
\* minimum interval after the first one's write
C24_Witness ==
  /\ \E n \in 1..Len(wire), m \in 1..Len(peer.wire) :
       /\ wire[n].ok /\ peer.wire[m].ok
       /\ peer.wire[m].at - wire[n].at < commandDelay
       /\ peer.wire[m].at >= wire[n].at
       /\ peer.cmds[peer.wire[m].id].path = "immediate"
       /\ ~peer.cmds[peer.wire[m].id].priority
  /\ Len(peer.q) > 0
  /\ Len(commandQueue) > 0

(* ---------------- two connections process avatars: C25 ---------------- *)

\* the avatars of the channels the connections can resolve
Avatars == { "a1", "a2" }

\* the rest of the state while avatars are processed
ImageFrame ==
  UNCHANGED << now, lastCommandTime, commandQueue, isProcessing, drainWake, cmds, wire,
               unhandled, tasks, busy, liveUpdates, timers, channels, renders, received,
               polled, connection, peer, countNew, countOld, plan, woolColors, colorCache,
               scans, resolved, raw, placed, legacy >>

\* each connection has resolved a channel with a profileImageUrl and is about
\* to call downloadAndProcessImage
InitImages ==
  /\ Connected /\ NoPlan /\ NoColours /\ NoLegacy
  /\ files = [ original |-> absent, processed |-> absent ]
  /\ processing \in [ Connections -> { [ pc |-> "download", url |-> a, buffer |-> absent,
                                         blockData |-> absent ] : a \in Avatars } ]

\* the connection's handler moves to its next await
Step(c, pc, fields) ==
  processing' = [ processing EXCEPT ![c] = [ pc |-> pc, url |-> @.url,
                                             buffer |-> fields.buffer,
                                             blockData |-> fields.blockData ] ]

\* await fetch(imageUrl); await response.buffer()
Download(c) ==
  /\ processing[c].pc = "download"
  /\ Step(c, "write", [ buffer |-> [ image |-> processing[c].url, form |-> "original" ],
                        blockData |-> absent ])
  /\ UNCHANGED files
  /\ ImageFrame

\* await fs.writeFile(config.image.tempFiles.original, buffer)
WriteOriginal(c) ==
  /\ processing[c].pc = "write"
  /\ files' = [ files EXCEPT !.original = processing[c].buffer ]
  /\ Step(c, "process", processing[c])
  /\ ImageFrame

\* processImage(): sharp(original).resize(...).png().toFile(processed); a
\* missing input file rejects, handleSubscribers continues without the image
ProcessImage(c) ==
  /\ processing[c].pc = "process"
  /\ IF files.original = absent
       THEN /\ Step(c, "render", processing[c])
            /\ UNCHANGED files
       ELSE /\ files' = [ files EXCEPT !.processed = [ image |-> files.original.image,
                                                       form |-> "resized" ] ]
            /\ Step(c, "generate", processing[c])
  /\ ImageFrame

\* generateBlockData(): sharp(processed).raw().toBuffer(), then the blocks
GenerateBlockData(c) ==
  /\ processing[c].pc = "generate"
  /\ IF files.processed = absent
       THEN Step(c, "render", processing[c])
       ELSE Step(c, "render", [ buffer |-> processing[c].buffer,
                                blockData |-> [ image |-> files.processed.image,
                                                form |-> "blocks" ] ])
  /\ UNCHANGED files
  /\ ImageFrame

\* renderYouTubeChannel(channelData, blockData) and the two closing lines
RenderChannel(c) ==
  /\ processing[c].pc = "render"
  /\ Step(c, "unlinkOriginal", processing[c])
  /\ UNCHANGED files
  /\ ImageFrame

\* cleanup(): await fs.unlink(original).catch(() => {})
UnlinkOriginal(c) ==
  /\ processing[c].pc = "unlinkOriginal"
  /\ files' = [ files EXCEPT !.original = absent ]
  /\ Step(c, "unlinkProcessed", processing[c])
  /\ ImageFrame

\* cleanup(): await fs.unlink(processed).catch(() => {})
UnlinkProcessed(c) ==
  /\ processing[c].pc = "unlinkProcessed"
  /\ files' = [ files EXCEPT !.processed = absent ]
  /\ Step(c, "done", processing[c])
  /\ ImageFrame

NextImages ==
  \E c \in Connections :
    \/ Download(c)
    \/ WriteOriginal(c)
    \/ ProcessImage(c)
    \/ GenerateBlockData(c)
    \/ RenderChannel(c)
    \/ UnlinkOriginal(c)
    \/ UnlinkProcessed(c)

\* two connections, each running subs on a channel with an avatar
SpecImages == InitImages /\ [][NextImages]_vars

\* C25: the image blocks a connection renders are computed from the avatar
\* of the channel this connection resolved, in every interleaving of the two
\* connections' download, resize, block generation and cleanup.
C25_OwnAvatar ==
  \A c \in Connections :
    processing[c].blockData # absent =>
      processing[c].blockData.image = processing[c].url

(* ---------------- the renderer's digit plans: C26..C28 ---------------- *)

\* longest count drawn digit by digit
MaxDigits == 3

\* the digits the drawn counts are made of
SomeDigits == { "0", "1", "2", "3", "7", "9" }

\* counts of ten and of eleven digits
LongCounts ==
  { << "1", "2", "3", "7", "9", "0", "1", "2", "3", "7" >>,
    << "1", "2", "3", "7", "9", "0", "1", "2", "3", "7", "9" >> }

\* subscriberCount.toString() of a count: digits without a leading zero, or 0
DigitCounts ==
  LongCounts \cup
  UNION { { digits \in [ 1..n -> SomeDigits ] : n > 1 => digits[1] # "0" } : n \in 1..MaxDigits }

\* the rest of the state while the renderer computes a plan
PlanFrame ==
  UNCHANGED << now, lastCommandTime, commandQueue, isProcessing, drainWake, cmds, wire,
               unhandled, tasks, busy, liveUpdates, timers, channels, renders, received,
               polled, connection, peer, files, processing, countNew, countOld,
               woolColors, colorCache, scans, resolved, raw, placed, legacy >>

\* the renderer is about to be called with a new count and the previous one,
\* if there is one
InitDigits ==
  /\ Connected /\ NoImages /\ NoColours /\ NoLegacy
  /\ countNew \in DigitCounts
  /\ countOld \in DigitCounts \cup { noCount }
  /\ plan = [ fn |-> "none", commands |-> <<>> ]

\* renderSubscriberCount(countNew): the commands it hands to sendBatch
RenderSubscriberCount ==
  /\ plan.fn = "none"
  /\ plan' = [ fn |-> "render", commands |-> RenderCommands(countNew) ]
  /\ PlanFrame

\* updateSubscriberCount(countNew, countOld): the commands it submits; without
\* the old count, the clear of the display and the full render
UpdateSubscriberCount ==
  /\ plan.fn = "none"
  /\ plan' = [ fn |-> "update",
               commands |-> IF countOld = noCount
                              THEN << clearCommands[1] >> \o RenderCommands(countNew)
                              ELSE UpdateCommands(countNew, countOld) ]
  /\ PlanFrame

NextDigits == RenderSubscriberCount \/ UpdateSubscriberCount

\* the renderer's two digit functions on every pair of counts
SpecDigits == InitDigits /\ [][NextDigits]_vars

\* C26: for every count X, updateSubscriberCount(X, X) computes an empty
\* plan: no fill and no clone command is submitted.
C26_NoChangeNoPlan ==
  (plan.fn = "update" /\ countOld = countNew) => plan.commands = <<>>

\* updateSubscriberCount has been called with the same count twice, 123
C26_Witness ==
  /\ plan.fn = "update"
  /\ countNew = << "1", "2", "3" >>
  /\ countOld = countNew
  /\ plan.commands = <<>>

\* the two counts, left-padded with blanks to the same length
Longest == IF Len(countNew) > Len(countOld) THEN Len(countNew) ELSE Len(countOld)
PaddedNew == [ i \in 1..Longest |->
                 IF i <= Longest - Len(countNew) THEN " " ELSE countNew[i - (Longest - Len(countNew))] ]
PaddedOld == [ i \in 1..Longest |->
                 IF i <= Longest - Len(countOld) THEN " " ELSE countOld[i - (Longest - Len(countOld))] ]

\* the positions, counted from 0, where the padded strings differ
Differing == { i \in 0..(Longest - 1) : PaddedNew[i + 1] # PaddedOld[i + 1] }

\* number of operations of the differing positions before position i
OpsBefore(i) ==
  Cardinality({ j \in Differing : j < i })
    + Cardinality({ j \in Differing : j < i /\ PaddedNew[j + 1] # " " })

\* the fill and the clone of position i, written out
FillAt(i) ==
  << "fill",
     ToString(1 - 4 * i + 2) \o " -60 40",
     ToString(1 - 4 * i - 2) \o " -56 44",
     "air" >>
CloneAt(digit, i) ==
  << "clone", digitTemplates[digit].from, digitTemplates[digit].to,
     ToString(1 - 4 * i) \o " -60 42" >>

\* C27: updateSubscriberCount emits operations exactly for the positions
\* where the two left-padded digit strings differ: for each such position a
\* fill to air followed, unless the new digit is blank, by one clone of the
\* new digit's template to that position; nothing for the other positions.
C27_DiffPlan ==
  (plan.fn = "update" /\ countOld # noCount) =>
    /\ Len(plan.commands) = OpsBefore(Longest)
    /\ \A i \in Differing :
         /\ plan.commands[OpsBefore(i) + 1] = FillAt(i)
         /\ PaddedNew[i + 1] # " " =>
              plan.commands[OpsBefore(i) + 2] = CloneAt(PaddedNew[i + 1], i)

\* new 123, old 99: the hundreds position gets a fill and a clone of 1
C27_Witness ==
  /\ plan.fn = "update"
  /\ countNew = << "1", "2", "3" >>
  /\ countOld = << "9", "9" >>
  /\ Len(plan.commands) = 6
  /\ plan.commands[2] = << "clone", "2 -64 46", "0 -64 42", "1 -60 42" >>

\* C28: renderSubscriberCount emits for a count of d digits exactly
\* min(d, 10) clone commands, the i-th (from the most significant digit,
\* counted from 0) cloning that digit's template to
\* x = start.x - i * digitSpacing with y and z of the start position; a
\* one-digit count 7 yields one clone of the 7 template to the start.
C28_FullPlan ==
  plan.fn = "render" =>
    /\ Len(plan.commands) = Min(Len(countNew), 10)
    /\ \A i \in 0..(Len(plan.commands) - 1) : plan.commands[i + 1] = CloneAt(countNew[i + 1], i)
    /\ countNew = << "7" >> =>
         plan.commands = << << "clone", "-22 -64 46", "-24 -64 42", "1 -60 42" >> >>

\* a count of eleven digits has been rendered: ten clones, the last at x = -35
C28_Witness ==
  /\ plan.fn = "render"
  /\ Len(countNew) = 11
  /\ Len(plan.commands) = 10
  /\ plan.commands[10] = << "clone", "-22 -64 46", "-24 -64 42", "-35 -60 42" >>

(* ---------------- the colour resolver: C29 ---------------- *)

\* Number.MAX_VALUE: above every distance between two colours
MAX_VALUE == 2147483647

\* longest palette drawn
MaxPalette == 3

\* number of calls of findClosestWoolColor
MaxCalls == 3

\* the values of a colour component
Bytes == 0..255

\* Number(text) of the decimal text of a component
NumberOf == [ text \in { ToString(n) : n \in Bytes } |-> CHOOSE n \in Bytes : ToString(n) = text ]

\* the entries palettes are drawn from
WoolPool ==
  { Readme[i] : i \in 1..Len(Readme) } \cup { [ name |-> "black_wool", rgb |-> << "20", "21", "25" >> ] }

\* palettes of distinct triples
Palettes ==
  UNION { { palette \in [ 1..n -> WoolPool ] :
              \A i, j \in 1..n : palette[i].rgb = palette[j].rgb => i = j } : n \in 1..MaxPalette }

\* the colours resolved: the triples of the pool's entries and two others
Pixels ==
  { << NumberOf[e.rgb[1]], NumberOf[e.rgb[2]], NumberOf[e.rgb[3]] >> : e \in WoolPool }
    \cup { << 0, 0, 0 >>, << 250, 250, 250 >> }

\* the cache key `${r},${g},${b}`
Key(r, g, b) == ToString(r) \o "," \o ToString(g) \o "," \o ToString(b)

\* (r - wr) ** 2 + (g - wg) ** 2 + (b - wb) ** 2
Distance(woolColor, r, g, b) ==
  LET wr == NumberOf[woolColor.rgb[1]]
      wg == NumberOf[woolColor.rgb[2]]
      wb == NumberOf[woolColor.rgb[3]]
  IN (r - wr) * (r - wr) + (g - wg) * (g - wg) + (b - wb) * (b - wb)

\* the scan of the palette from its i-th entry on
RECURSIVE Scan(_, _, _, _, _, _, _)
Scan(palette, i, r, g, b, closestColor, closestDistance) ==
  IF i > Len(palette) THEN closestColor
  ELSE IF Distance(palette[i], r, g, b) < closestDistance
         THEN Scan(palette, i + 1, r, g, b, palette[i], Distance(palette[i], r, g, b))
  ELSE Scan(palette, i + 1, r, g, b, closestColor, closestDistance)

\* findClosestWoolColor that does not store what it found
FindClosestWoolColorNoCache(cache, palette, r, g, b) ==
  [ name |-> Scan(palette, 1, r, g, b, palette[1], MAX_VALUE).name,
    colorCache |-> cache, scanned |-> TRUE ]

\* findClosestWoolColor(r, g, b): the name, the cache afterwards, and whether
\* the palette was scanned
FindClosestWoolColor(cache, palette, r, g, b) ==
  IF Key(r, g, b) \in DOMAIN cache
  THEN [ name |-> cache[Key(r, g, b)], colorCache |-> cache, scanned |-> FALSE ]
  ELSE LET closestColor == Scan(palette, 1, r, g, b, palette[1], MAX_VALUE)
       IN [ name |-> closestColor.name,
            colorCache |-> (Key(r, g, b) :> closestColor.name) @@ cache,
            scanned |-> TRUE ]

\* the rest of the state while colours are resolved
ColourFrame ==
  UNCHANGED << now, lastCommandTime, commandQueue, isProcessing, drainWake, cmds, wire,
               unhandled, tasks, busy, liveUpdates, timers, channels, renders, received,
               polled, connection, peer, files, processing, countNew, countOld, plan,
               legacy >>

\* an ImageProcessor has been constructed with a palette
InitColours ==
  /\ Connected /\ NoImages /\ NoPlan /\ NoLegacy
  /\ woolColors \in Palettes
  /\ colorCache = <<>>
  /\ scans = 0
  /\ resolved = <<>>
  /\ raw = [ width |-> 0, height |-> 0, data |-> <<>> ]
  /\ placed = <<>>

\* a caller resolves a colour
ResolveColour ==
  /\ Len(resolved) < MaxCalls
  /\ \E p \in Pixels :
       LET found == FindClosestWoolColor(colorCache, woolColors, p[1], p[2], p[3])
       IN /\ colorCache' = found.colorCache
          /\ scans' = scans + (IF found.scanned THEN 1 ELSE 0)
          /\ resolved' = Append(resolved, [ rgb |-> p, name |-> found.name,
                                            scanned |-> found.scanned ])
  /\ UNCHANGED << woolColors, raw, placed >>
  /\ ColourFrame

NextColours == ResolveColour

\* findClosestWoolColor on every drawn palette
SpecColours == InitColours /\ [][NextColours]_vars

\* the palette's entries whose triple is the one of the k-th call
Exact(k) ==
  { e \in 1..Len(woolColors) :
      woolColors[e].rgb = [ c \in 1..3 |-> ToString(resolved[k].rgb[c]) ] }

\* C29: with a palette of distinct triples, findClosestWoolColor on an exact
\* palette triple returns that entry's own label, and a later resolution of
\* the same triple returns the same label from the cache, without a scan.
C29_ExactAndCached ==
  /\ \A k \in 1..Len(resolved) : \A e \in Exact(k) : resolved[k].name = woolColors[e].name
  /\ \A j, k \in 1..Len(resolved) :
       (j < k /\ resolved[j].rgb = resolved[k].rgb) =>
         /\ resolved[k].name = resolved[j].name
         /\ ~resolved[k].scanned
  /\ scans = Cardinality({ resolved[k].rgb : k \in 1..Len(resolved) })

\* the triple of the palette's last entry has been resolved twice: one scan
C29_Witness ==
  /\ Len(woolColors) = 3
  /\ Len(resolved) = 2
  /\ Exact(1) = { 3 }
  /\ resolved[2].rgb = resolved[1].rgb
  /\ resolved[2].name = woolColors[3].name
  /\ scans = 1

(* ---------------- the image plan: C30 ---------------- *)

\* widest and highest image drawn
MaxWidth == 2
MaxHeight == 2

\* config.coordinates.profileImage.corner
corner == [ x |-> -31, y |-> -60, z |-> 82 ]

\* the colours of the drawn images: an exact palette triple, two others
GridColours == { << 249, 255, 254 >>, << 250, 130, 30 >>, << 200, 80, 190 >> }

\* what sharp(processed).raw().toBuffer() resolves to: info and the bytes of
\* data, three per pixel, row by row
RawImages ==
  UNION { { [ width |-> w, height |-> h,
              data |-> [ n \in 1..(3 * w * h) |-> grid[((n - 1) \div 3) + 1][((n - 1) % 3) + 1] ] ] :
                grid \in [ 1..(w * h) -> GridColours ] } :
          w \in 1..MaxWidth, h \in 1..MaxHeight }

\* mcX without the mirror
McXNoMirror(width, x) == corner.x + x

\* mcX of the pixel's column
McX(width, x) == corner.x + (width - 1 - x)

\* the two loops of generateBlockData from the n-th pixel on, n = y * width + x:
\* the blocks, the cache afterwards and the scans made
RECURSIVE BlocksFrom(_, _, _)
BlocksFrom(image, n, cache) ==
  IF ~(n < image.width * image.height)
  THEN [ blocks |-> <<>>, colorCache |-> cache, scans |-> 0 ]
  ELSE LET x == n % image.width
           y == n \div image.width
           idx == (y * image.width + x) * 3
           found == FindClosestWoolColor(cache, woolColors, image.data[idx + 1],
                                         image.data[idx + 2], image.data[idx + 3])
           mcX == McX(image.width, x)
           mcY == corner.y
           mcZ == corner.z - y
           rest == BlocksFrom(image, n + 1, found.colorCache)
       IN [ blocks |-> << [ x |-> mcX, y |-> mcY, z |-> mcZ, block |-> found.name,
                            coordinates |-> Coordinates(mcX, mcY, mcZ) ] >> \o rest.blocks,
            colorCache |-> rest.colorCache,
            scans |-> rest.scans + (IF found.scanned THEN 1 ELSE 0) ]

\* the rest of the state while the image plan is computed
PixelFrame ==
  UNCHANGED << now, lastCommandTime, commandQueue, isProcessing, drainWake, cmds, wire,
               unhandled, tasks, busy, liveUpdates, timers, channels, renders, received,
               polled, connection, peer, files, processing, countNew, countOld,
               woolColors, resolved, raw, legacy >>

\* the processed image is there to be read
InitPixels ==
  /\ Connected /\ NoImages /\ NoPlan /\ NoLegacy
  /\ woolColors = Readme
  /\ colorCache = <<>>
  /\ scans = 0
  /\ resolved = <<>>
  /\ raw \in RawImages
  /\ placed = <<>>

\* generateBlockData()
GenerateBlocks ==
  /\ placed = <<>>
  /\ LET generated == BlocksFrom(raw, 0, colorCache)
     IN /\ placed' = generated.blocks
        /\ colorCache' = generated.colorCache
        /\ scans' = scans + generated.scans
  /\ UNCHANGED plan
  /\ PixelFrame

\* renderProfileImage(blockData): the batches it submits, one per block type
SubmitImage ==
  /\ placed # <<>>
  /\ plan.fn = "none"
  /\ plan' = [ fn |-> "image",
               commands |-> [ g \in 1..Len(BlockTypes(placed)) |-> GroupCommands(placed, g) ] ]
  /\ UNCHANGED << placed, colorCache, scans >>
  /\ PixelFrame

NextPixels == GenerateBlocks \/ SubmitImage

\* generateBlockData and renderProfileImage on every drawn image
SpecPixels == InitPixels /\ [][NextPixels]_vars

\* the colour of pixel (x, y) of the image read
PixelAt(x, y) ==
  [ c \in 1..3 |-> raw.data[(y * raw.width + x) * 3 + c] ]

\* the label is the one of a palette entry no other entry is closer than
Nearest(label, p) ==
  \E e \in 1..Len(woolColors) :
    /\ woolColors[e].name = label
    /\ \A f \in 1..Len(woolColors) :
         Distance(woolColors[e], p[1], p[2], p[3]) <= Distance(woolColors[f], p[1], p[2], p[3])

\* the positions of a command in the batches
Placements(command) ==
  { gi \in { << g, i >> : g \in 1..Len(plan.commands), i \in 1..(raw.width * raw.height) } :
      /\ gi[2] <= Len(plan.commands[gi[1]])
      /\ plan.commands[gi[1]][gi[2]] = command }

\* C30: for a width x height grid the image plan has exactly one setblock per
\* pixel (x, y), at x = corner.x + (width - 1 - x), y = corner.y,
\* z = corner.z - y, with the pixel's nearest palette label; the grouping of
\* renderProfileImage neither drops nor duplicates one, and every batch
\* holds one label only.
C30_ImagePlan ==
  /\ placed # <<>> =>
       /\ Len(placed) = raw.width * raw.height
       /\ \A x \in 0..(raw.width - 1), y \in 0..(raw.height - 1) :
            \E k \in 1..Len(placed) :
              /\ placed[k].coordinates
                   = ToString(-31 + (raw.width - 1 - x)) \o " -60 " \o ToString(82 - y)
              /\ Nearest(placed[k].block, PixelAt(x, y))
              /\ \A j \in 1..Len(placed) :
                   placed[j].coordinates = placed[k].coordinates => j = k
  /\ plan.fn = "image" =>
       /\ \A k \in 1..Len(placed) :
            Cardinality(Placements(<< "setblock", placed[k].coordinates, placed[k].block >>)) = 1
       /\ \A g \in 1..Len(plan.commands) :
            /\ Len(plan.commands[g]) > 0
            /\ \A i, j \in 1..Len(plan.commands[g]) :
                 plan.commands[g][i][3] = plan.commands[g][j][3]
            /\ \A i \in 1..Len(plan.commands[g]) :
                 \E k \in 1..Len(placed) :
                   plan.commands[g][i] = << "setblock", placed[k].coordinates, placed[k].block >>

\* a 2 x 2 image of three colours has been rendered: the pixel (0, 0) is
\* placed at the mirrored column, and the white pixels share a batch
C30_Witness ==
  /\ plan.fn = "image"
  /\ raw.width = 2 /\ raw.height = 2
  /\ PixelAt(0, 0) = << 200, 80, 190 >>
  /\ PixelAt(1, 0) = << 249, 255, 254 >>
  /\ PixelAt(0, 1) = << 250, 130, 30 >>
  /\ PixelAt(1, 1) = << 249, 255, 254 >>
  /\ placed[1].coordinates = "-30 -60 82"
  /\ Len(plan.commands) = 3
  /\ plan.commands[2] = << << "setblock", "-31 -60 82", "white_wool" >>,
                           << "setblock", "-31 -60 81", "white_wool" >> >>

(* ---------------- the failures of subs: C31, C32 ---------------- *)

\* the handler replied the message and gave up: Idle, no field of the session,
\* no timer, no remembered channel, no render and no queued command changed,
\* nothing built but the reply and, when a reply threw, the replies of the
\* catches
GaveUp(w, message) ==
  /\ ~w.busy
  /\ w.live = liveUpdates
  /\ w.timers = timers
  /\ w.channels = channels
  /\ w.renders = renders
  /\ w.s.q = commandQueue
  /\ Len(Built(w)) >= 1
  /\ Built(w)[1].command = << "/", "say", message >>
  /\ \A i \in 2..Len(Built(w)) :
       Built(w)[i].command \in { << "/", "say", "commandFailed" >>, << "/", "say", "error" >> }

\* what getChannelData returns when the lookup fails
FailedResults == { data \in ChannelResults : ~data.success }

\* C31: a subs command that fails before rendering (no argument, invalid
\* channel format, or a failed remote fetch) replies its error message,
\* returns to Idle, submits no clear, clone, fill or setblock command and
\* leaves the remembered channel and the last observed count unchanged; for
\* no argument and for an invalid format no remote fetch is started.
C31_SubsFailsCleanly ==
  /\ \A command \in { "subs", "subscribers", "channel", "chan" }, oks \in StepOks :
       ~(busy /\ command \in { "subs", "channel" }) =>
         LET none == HandlerExecuteCommand(World, command, "none", now, oks)
             invalid == HandlerExecuteCommand(World, command, "invalid", now, oks)
         IN /\ Len(none.task) = 0
            /\ GaveUp(Return(none.w, "chat", now, oks), "usage")
            /\ Len(invalid.task) = 0
            /\ GaveUp(Return(invalid.w, "chat", now, oks), "invalidFormat")
  /\ \A data \in FailedResults, oks \in StepOks :
       LET task == [ NoTask EXCEPT !.kind = "subs", !.pc = "getChannelData" ]
           r == SubscribersFetched(World, task, data, now, oks)
       IN /\ Len(r.task) = 0
          /\ GaveUp(Return(r.w, "chat", now, oks), "fetchFailed")

\* a channel is remembered, a later subs had an invalid argument: the
\* dispatcher is Idle and the channel and its count are still there
C31_Witness ==
  /\ Replied("invalidFormat")
  /\ cmds[Len(cmds)].command = << "/", "say", "invalidFormat" >>
  /\ ~busy
  /\ tasks = <<>>
  /\ liveUpdates.channelData # null
  /\ liveUpdates.lastSubscriberCount = << "7" >>

\* the chat lines of a player who looks channels up
AvatarLines == { [ command |-> "subs", args |-> "valid" ] }

AvatarChatLine == Chat(AvatarLines)

NextAvatar == AvatarChatLine \/ AvatarFetchReturn \/ ImageReturn \/ CleanupReturn
                \/ TaskResume \/ TaskWake \/ DrainTimer \/ Advance

\* subs on a channel with an avatar
SpecAvatar == Init /\ [][NextAvatar]_vars

\* the commands of the kind built so far
Commands(kind) == { i \in 1..Len(cmds) : cmds[i].command[2] = kind }

\* the reply that opened the latest lookup, 0 when there was none
LastLookup ==
  LET opened == { i \in 1..Len(cmds) : cmds[i].command = << "/", "say", "fetching" >> }
  IN IF opened = {} THEN 0 ELSE CHOOSE i \in opened : \A j \in opened : j <= i

\* the commands of the kind built since the latest lookup was opened
Latest(kind) == { i \in Commands(kind) : i > LastLookup }

\* the latest lookup has replied the message
LatestReplied(message) ==
  \E i \in Latest("say") : cmds[i].command = << "/", "say", message >>

\* C32: when the avatar's download, resize or block generation fails during
\* subs, the operation goes on: no setblock command is submitted, and, unless
\* a socket write throws, the digits are rendered, the completion message is
\* sent and the dispatcher returns to Idle.
C32_ImageFailureDegrades ==
  LatestReplied("imageFailed") =>
    /\ Latest("setblock") = {}
    /\ (Failed = 0 /\ ~Pending) =>
         /\ Latest("clone") # {}
         /\ \A i \in Latest("clone") : cmds[i].outcome = "success"
         /\ LatestReplied("complete")
         /\ ~busy
         /\ tasks = <<>>

\* the avatar failed, the digit was rendered and the operation is complete
C32_Witness ==
  /\ LatestReplied("imageFailed")
  /\ Latest("setblock") = {}
  /\ Failed = 0
  /\ ~Pending
  /\ LatestReplied("complete")
  /\ Latest("clone") # {}
  /\ ~busy

(* ---------------- the drain flag: C33 ---------------- *)

\* C33: the drain flag is set only while a drain process is running (between
\* two steps: sleeping for the minimum interval), also when clearQueue has
\* emptied the queue during the sleep; so a non-empty queue never stays
\* without a running drain.
C33_DrainFlag ==
  /\ isProcessing => drainWake # <<>>
  /\ commandQueue # <<>> => drainWake # <<>>

(* ---------------- the diffed render against the full render: C34 ---------------- *)

\* the digit positions of the display, counted from 0
Positions == 0..11

\* the display after a clear and renderSubscriberCount(count): the digits from
\* position 0, most significant first
Shown(count) == [ i \in Positions |-> IF i < Len(RenderCommands(count)) THEN count[i + 1] ELSE " " ]

\* the display after the game has run a command: a fill empties its position,
\* a clone places its digit
Run(display, command) ==
  [ i \in Positions |->
      IF command = Fill(i) THEN " "
      ELSE IF \E digit \in DOMAIN digitTemplates : command = Clone(digit, i)
             THEN CHOOSE digit \in DOMAIN digitTemplates : command = Clone(digit, i)
      ELSE display[i] ]

\* the display after the game has run the commands in order
RECURSIVE RunAll(_, _)
RunAll(display, plans) ==
  IF Len(plans) = 0 THEN display
  ELSE RunAll(Run(display, Head(plans)), Tail(plans))

\* C34: on a display that shows renderSubscriberCount(old), the operations of
\* updateSubscriberCount(new, old) leave the same digit at every position as
\* a cleared display followed by renderSubscriberCount(new), for all old and
\* new counts, those with different numbers of digits included.
C34_DiffRefinesFull ==
  (plan.fn = "update" /\ countOld # noCount) =>
    RunAll(Shown(countOld), plan.commands) = Shown(countNew)

(* ---------------- sessions one after the other: C35..C37 ---------------- *)

\* a channel has been looked up and rendered: it is remembered with its count
InitSessions ==
  /\ now = StartTime
  /\ lastCommandTime = 0
  /\ commandQueue = <<>>
  /\ isProcessing = FALSE
  /\ drainWake = <<>>
  /\ cmds = <<>>
  /\ wire = <<>>
  /\ unhandled = 0
  /\ tasks = <<>>
  /\ busy = FALSE
  /\ \E data \in { d \in ChannelResults : d.success } :
       /\ channels = << data >>
       /\ liveUpdates = [ enabled |-> FALSE, intervalId |-> null, channelData |-> 1,
                          startTime |-> null, lastSubscriberCount |-> data.subscriberCount ]
  /\ timers = <<>>
  /\ renders = <<>>
  /\ received = 0
  /\ polled = 0
  /\ connection = [ open |-> TRUE, connectedClients |-> TRUE, commandHandlers |-> TRUE ]
  /\ peer = [ q |-> <<>>, last |-> 0, proc |-> FALSE, sleep |-> <<>>, cmds |-> <<>>,
              wire |-> <<>>, threw |-> FALSE, sends |-> 0 ]
  /\ NoImages /\ NoPlan /\ NoColours /\ NoLegacy

\* the chat lines of a player who starts and stops sessions
SessionLines == { [ command |-> c, args |-> "none" ] : c \in { "live", "stop" } }

SessionChatLine == Chat(SessionLines)

NextSessions == SessionChatLine \/ AutoStop \/ Advance

\* one connection whose player starts and stops sessions on a remembered channel
SpecSessions == InitSessions /\ [][NextSessions]_vars

\* C35: a session is stopped automatically only after it has itself run for
\* the maximum duration: the "stopped automatically" notice is sent only at
\* or after the ceiling of the session it stops, also when an earlier
\* session, ended by a stop, has left its auto-stop timer behind.
C35_OwnCeiling ==
  [][ Notices' > Notices => now >= liveUpdates.startTime + maxDuration ]_vars

(* ---------------- a poll in flight when its session ends: C36 ---------------- *)

\* C36: once the session has been stopped (stop, clear, reload or the
\* auto-stop), a poll whose fetch was in flight at that moment has no effect:
\* when its fetch returns, with whatever count, it submits no fill and no clone
\* command, starts no render and leaves the last observed count as it is.
C36_StoppedPollIsInert ==
  \A k \in 1..Len(tasks), data \in PollResults, oks \in StepOks :
    (tasks[k].pc = "fetchChannelDataDirect" /\ ~liveUpdates.enabled) =>
      LET r == PollFetched(World, tasks[k], data, now, oks)
      IN /\ Len(r.task) = 0
         /\ r.w.renders = renders
         /\ \A i \in 1..Len(Built(r.w)) : Built(r.w)[i].command[2] \notin { "fill", "clone" }
         /\ r.w.live.lastSubscriberCount = liveUpdates.lastSubscriberCount

(* ---------------- the polls of one session: C37 ---------------- *)

\* number of polls of one behaviour that are followed when polls can overlap
MaxOverlap == 2

\* the chat lines of a player who starts one session
OverlapLines == { [ command |-> "live", args |-> "none" ] }

OverlapChatLine == Chat(OverlapLines)

OverlapPollFire == PollTick(MaxOverlap)

NextOverlap == OverlapChatLine \/ TaskResume \/ TaskWake \/ DrainTimer
                 \/ OverlapPollFire \/ PollFetchReturn \/ Advance

\* one session on a remembered channel, two of whose polls are followed, up
\* to the time its auto-stop timer is due
SpecOverlap == InitSessions /\ [][NextOverlap]_vars

\* the polls in progress: called by the timer and not yet returned
PollsInProgress == { k \in 1..Len(tasks) : tasks[k].kind = "poll" }

\* C37: the polls of one session do not overlap: while the fetch or the
\* render batch of an earlier tick is in progress no later tick starts its
\* own, so at most one poll is in progress at any time.
C37_PollsDoNotOverlap == Cardinality(PollsInProgress) <= 1

(* ---------------- the region an update clears: C38 ---------------- *)

\* the corners of the digit templates of config.coordinates.digitTemplates, as
\* x, y, z: every template lies at y = -64 and z = 42..46, three blocks in x
TemplateTo(digit) ==
  CASE digit = "0" -> << -36, -64, 42 >>
    [] digit = "1" -> << 0, -64, 42 >>
    [] digit = "2" -> << -4, -64, 42 >>
    [] digit = "3" -> << -8, -64, 42 >>
    [] digit = "4" -> << -12, -64, 42 >>
    [] digit = "5" -> << -16, -64, 42 >>
    [] digit = "6" -> << -20, -64, 42 >>
    [] digit = "7" -> << -24, -64, 42 >>
    [] digit = "8" -> << -28, -64, 42 >>
    [] digit = "9" -> << -32, -64, 42 >>
TemplateFrom(digit) == << TemplateTo(digit)[1] + 2, -64, 46 >>

Max(a, b) == IF a > b THEN a ELSE b

\* the blocks of the box between two corners
Box(from, to) ==
  { << x, y, z >> : x \in Min(from[1], to[1])..Max(from[1], to[1]),
                    y \in Min(from[2], to[2])..Max(from[2], to[2]),
                    z \in Min(from[3], to[3])..Max(from[3], to[3]) }

\* the blocks `clone from to destination` writes: the box of the template,
\* moved so that its lowest corner is the destination
Footprint(digit, i) ==
  LET from == TemplateFrom(digit)
      to == TemplateTo(digit)
      destination == << DestX(i), subscriberDisplay.start.y, subscriberDisplay.start.z >>
  IN Box(destination,
         << destination[1] + Max(from[1], to[1]) - Min(from[1], to[1]),
            destination[2] + Max(from[2], to[2]) - Min(from[2], to[2]),
            destination[3] + Max(from[3], to[3]) - Min(from[3], to[3]) >>)

\* the blocks the fill of position i sets to air
FillRegion(i) == Box(clearFrom(i), clearTo(i))

\* C38: the region updateSubscriberCount fills with air for position i covers
\* every block of the footprint of the digit at position i and no block of the
\* footprint of a digit at any other position.
C38_FillIsTheFootprint ==
  plan.fn = "update" =>
    \A i \in Positions :
      (\E n \in 1..Len(plan.commands) : plan.commands[n] = Fill(i)) =>
        \A digit \in DOMAIN digitTemplates :
          /\ Footprint(digit, i) \subseteq FillRegion(i)
          /\ \A j \in Positions \ { i } : Footprint(digit, j) \cap FillRegion(i) = {}

(* ---------------- the legacy sender send.js: C39 ---------------- *)

\* number of external calls of send in one behaviour
MaxLegacy == 4
\* the clock stops at this time unless a timeout is armed
LegacyTime == 300

\* send(cmd, socket, type) at time t: L is the module's state, type is true
\* when the third argument is given
send(L, cmd, type, t) ==
  IF ~type /\ t - L.lastMsgTime < 50
  THEN [ L EXCEPT !.queue = Append(@, cmd) ]
  ELSE LET wrote == [ L EXCEPT !.written = Append(@, cmd), !.lastMsgTime = t ]
       IN IF Len(wrote.queue) > 0
          THEN [ wrote EXCEPT !.timeouts = Append(@, t + 100) ]
          ELSE wrote

\* the rest of the state while send.js runs
LegacyFrame ==
  UNCHANGED << lastCommandTime, commandQueue, isProcessing, drainWake, cmds, wire,
               unhandled, tasks, busy, liveUpdates, timers, channels, renders, received,
               polled, connection, peer, files, processing, countNew, countOld, plan,
               woolColors, colorCache, scans, resolved, raw, placed >>

\* a caller calls send: startThing's loop without the third argument, the
\* clone of youtubeService with it; the commands are numbered as they are passed
LegacySend ==
  /\ Len(legacy.calls) < MaxLegacy
  /\ \E type \in BOOLEAN :
       legacy' = send([ legacy EXCEPT !.calls = Append(@, type) ],
                      Len(legacy.calls) + 1, type, now)
  /\ UNCHANGED now
  /\ LegacyFrame

\* a timeout of send runs: `send(queue.shift(), socket)`
LegacyTimeout ==
  /\ \E k \in 1..Len(legacy.timeouts) :
       /\ legacy.timeouts[k] <= now
       /\ legacy' = send([ legacy EXCEPT
                             !.timeouts = SubSeq(@, 1, k - 1) \o SubSeq(@, k + 1, Len(@)),
                             !.queue = IF Len(@) = 0 THEN @ ELSE Tail(@) ],
                         IF Len(legacy.queue) = 0 THEN undefined ELSE Head(legacy.queue),
                         FALSE, now)
  /\ UNCHANGED now
  /\ LegacyFrame

\* time passes; a timeout runs when it is due
LegacyTick ==
  /\ \A k \in 1..Len(legacy.timeouts) : legacy.timeouts[k] > now
  /\ now < LegacyTime \/ Len(legacy.timeouts) > 0
  /\ now' = now + TickMs
  /\ UNCHANGED legacy
  /\ LegacyFrame

NextLegacy == LegacySend \/ LegacyTimeout \/ LegacyTick

\* send.js and its callers
SpecLegacy == Init /\ [][NextLegacy]_vars

\* the timers of Node run, the clock advances; no caller has to call again
FairLegacy == SpecLegacy /\ WF_vars(LegacyTimeout) /\ WF_vars(LegacyTick)

\* the commands passed without the third argument
Unflagged == { c \in 1..Len(legacy.calls) : ~legacy.calls[c] }

\* the command has been written to the socket
WrittenLegacy(c) == \E n \in 1..Len(legacy.written) : legacy.written[n] = c

\* C39: every command passed to send without the bypass flag is eventually
\* written to the socket, without a further external call of send, and these
\* commands are written in the order in which they were passed.
C39_LegacyDrains ==
  /\ [](\A m, n \in 1..Len(legacy.written) :
          (m < n /\ legacy.written[m] \in Unflagged /\ legacy.written[n] \in Unflagged)
            => legacy.written[m] < legacy.written[n])
  /\ \A c \in 1..MaxLegacy : (c \in Unflagged) ~> WrittenLegacy(c)

====
